---------------------------- MODULE Spec2Model ----------------------------
(***************************************************************************)
(* Geometric normalisation engine of framework/utils/image_processor.py:   *)
(* the rounding primitives, smart_resize, update_image_size and the        *)
(* coordinate converter.                                                   *)
(*                                                                         *)
(* The Python code computes with `/`, `*`, math.sqrt, round, int,          *)
(* math.floor and math.ceil on floats.  A Python float is an IEEE-754      *)
(* binary64 number and every one of these operations is correctly rounded  *)
(* (round-to-nearest, ties-to-even), so the model carries the same         *)
(* numbers: a float is a record [m, e] standing for m * 2^e with m an       *)
(* odd natural of at most 53 bits (or zero), m kept as a little-endian     *)
(* sequence of 15-bit limbs because a mantissa does not fit TLC's          *)
(* integers.  Only non-negative floats occur in the modelled calls.        *)
(***************************************************************************)
EXTENDS Integers, Sequences, FiniteSets, TLC

Max(a, b) == IF a >= b THEN a ELSE b
Min(a, b) == IF a <= b THEN a ELSE b
Abs(n) == IF n < 0 THEN 0 - n ELSE n

---------------------------------------------------------------------------
(* Naturals of any size: <<l1, l2, ...>> stands for l1 + l2*Limb + ...     *)

Limb == 2^15
MantBits == 52 + 1

RECURSIVE BigFromInt(_)
BigFromInt(n) == IF n = 0 THEN <<>> ELSE <<n % Limb>> \o BigFromInt(n \div Limb)

RECURSIVE BigToInt(_)
BigToInt(a) == IF Len(a) = 0 THEN 0 ELSE a[1] + Limb * BigToInt(Tail(a))

RECURSIVE BigTrim(_)
BigTrim(a) ==
    IF Len(a) = 0 THEN a
    ELSE IF a[Len(a)] = 0 THEN BigTrim(SubSeq(a, 1, Len(a) - 1))
    ELSE a

RECURSIVE BigCmpAt(_, _, _)
BigCmpAt(a, b, i) ==
    IF i = 0 THEN 0
    ELSE IF a[i] > b[i] THEN 1
    ELSE IF a[i] < b[i] THEN -1
    ELSE BigCmpAt(a, b, i - 1)

\* -1, 0 or 1 as a < b, a = b, a > b
BigCmp(a, b) ==
    IF Len(a) > Len(b) THEN 1
    ELSE IF Len(a) < Len(b) THEN -1
    ELSE BigCmpAt(a, b, Len(a))

BigLimb(a, i) == IF i <= Len(a) THEN a[i] ELSE 0

RECURSIVE BigAddC(_, _, _, _)
BigAddC(a, b, i, c) ==
    IF i > Len(a) /\ i > Len(b) THEN (IF c = 0 THEN <<>> ELSE <<c>>)
    ELSE LET s == BigLimb(a, i) + BigLimb(b, i) + c
         IN  <<s % Limb>> \o BigAddC(a, b, i + 1, s \div Limb)

BigAdd(a, b) == BigAddC(a, b, 1, 0)

RECURSIVE BigSubB(_, _, _, _)
BigSubB(a, b, i, br) ==
    IF i > Len(a) THEN <<>>
    ELSE LET d == a[i] - BigLimb(b, i) - br
         IN  IF d < 0 THEN <<d + Limb>> \o BigSubB(a, b, i + 1, 1)
             ELSE <<d>> \o BigSubB(a, b, i + 1, 0)

\* a - b, for a >= b
BigSub(a, b) == BigTrim(BigSubB(a, b, 1, 0))

RECURSIVE BigMulSmallC(_, _, _, _)
BigMulSmallC(a, k, i, c) ==
    IF i > Len(a) THEN (IF c = 0 THEN <<>> ELSE <<c>>)
    ELSE LET p == a[i] * k + c
         IN  <<p % Limb>> \o BigMulSmallC(a, k, i + 1, p \div Limb)

\* a * k, for 0 <= k < Limb
BigMulSmall(a, k) == IF k = 0 THEN <<>> ELSE BigMulSmallC(a, k, 1, 0)

RECURSIVE BigZeros(_)
BigZeros(n) == IF n = 0 THEN <<>> ELSE <<0>> \o BigZeros(n - 1)

RECURSIVE BigMulAt(_, _, _)
BigMulAt(a, b, j) ==
    IF j > Len(b) THEN <<>>
    ELSE BigAdd(IF b[j] = 0 THEN <<>> ELSE BigZeros(j - 1) \o BigMulSmall(a, b[j]),
                BigMulAt(a, b, j + 1))

BigMul(a, b) == IF Len(a) = 0 \/ Len(b) = 0 THEN <<>> ELSE BigMulAt(a, b, 1)

RECURSIVE BigDivSmallR(_, _, _, _)
\* limbs i..1 of the quotient (high limb last in the result), remainder r so far
BigDivSmallR(a, k, i, r) ==
    IF i = 0 THEN [q |-> <<>>, r |-> r]
    ELSE LET cur  == r * Limb + a[i]
             rest == BigDivSmallR(a, k, i - 1, cur % k)
         IN  [q |-> rest.q \o <<cur \div k>>, r |-> rest.r]

\* quotient and remainder of a by k, for 0 < k <= Limb
BigDivSmall(a, k) ==
    LET d == BigDivSmallR(a, k, Len(a), 0)
    IN  [q |-> BigTrim(d.q), r |-> d.r]

RECURSIVE IntBitLen(_)
IntBitLen(n) == IF n = 0 THEN 0 ELSE 1 + IntBitLen(n \div 2)

BigBitLen(a) == IF Len(a) = 0 THEN 0 ELSE 15 * (Len(a) - 1) + IntBitLen(a[Len(a)])

BigShl(a, s) ==
    IF Len(a) = 0 THEN a
    ELSE BigZeros(s \div 15) \o BigMulSmall(a, 2^(s % 15))

BigShr(a, s) ==
    IF s \div 15 >= Len(a) THEN <<>>
    ELSE BigDivSmall(SubSeq(a, s \div 15 + 1, Len(a)), 2^(s % 15)).q

\* bit i (0 the lowest) of a
BigBit(a, i) == (BigLimb(a, i \div 15 + 1) \div 2^(i % 15)) % 2

\* whether a has a non-zero bit below bit i
BigAnyBelow(a, i) ==
    \/ \E j \in 1..Min(i \div 15, Len(a)) : a[j] # 0
    \/ BigLimb(a, i \div 15 + 1) % 2^(i % 15) # 0

BigIsOdd(a) == Len(a) > 0 /\ a[1] % 2 = 1

RECURSIVE BigDigit(_, _, _, _)
\* the largest digit q < Limb with q * d <= r, found from its top bit down:
\* acc the bits decided so far, j the number of bits still to decide
BigDigit(r, d, j, acc) ==
    IF j = 0 THEN acc
    ELSE LET cand == acc + 2^(j - 1)
         IN  IF BigCmp(BigMulSmall(d, cand), r) <= 0
             THEN BigDigit(r, d, j - 1, cand)
             ELSE BigDigit(r, d, j - 1, acc)

RECURSIVE BigDivLoop(_, _, _, _)
\* long division, one limb of n at a time from limb i down; r the running
\* remainder (r < d).  The quotient's limbs come back lowest first.
BigDivLoop(n, d, i, r) ==
    IF i = 0 THEN [q |-> <<>>, r |-> r]
    ELSE LET r2   == BigTrim(<<n[i]>> \o r)
             dig  == IF BigCmp(r2, d) < 0 THEN 0 ELSE BigDigit(r2, d, 15, 0)
             r3   == IF dig = 0 THEN r2 ELSE BigSub(r2, BigMulSmall(d, dig))
             rest == BigDivLoop(n, d, i - 1, r3)
         IN  [q |-> rest.q \o <<dig>>, r |-> rest.r]

\* quotient and remainder of n by d, d # 0
BigDivMod(n, d) ==
    IF Len(d) = 1 THEN
        LET s == BigDivSmall(n, d[1])
        IN  [q |-> s.q, r |-> BigFromInt(s.r)]
    ELSE LET dm == BigDivLoop(n, d, Len(n), <<>>)
         IN  [q |-> BigTrim(dm.q), r |-> dm.r]

RECURSIVE BigSqrtLoop(_, _, _, _)
\* digit-by-digit square root: j pairs of bits of n still to bring down
BigSqrtLoop(n, j, rem, root) ==
    IF j = 0 THEN [root |-> root, rem |-> rem]
    ELSE LET pair  == 2 * BigBit(n, 2 * j - 1) + BigBit(n, 2 * j - 2)
             rem2  == BigAdd(BigMulSmall(rem, 4), BigFromInt(pair))
             trial == BigAdd(BigMulSmall(root, 4), <<1>>)
         IN  IF BigCmp(rem2, trial) >= 0
             THEN BigSqrtLoop(n, j - 1, BigSub(rem2, trial), BigAdd(BigMulSmall(root, 2), <<1>>))
             ELSE BigSqrtLoop(n, j - 1, rem2, BigMulSmall(root, 2))

\* floor of the square root of n, and the remainder n - root^2
BigSqrt(n) == BigSqrtLoop(n, (BigBitLen(n) + 1) \div 2, <<>>, <<>>)

---------------------------------------------------------------------------
(* Floats: [m, e] is m * 2^e, m odd (or m = <<>>, e = 0 for 0.0)           *)

FZero == [m |-> <<>>, e |-> 0]

RECURSIVE IntTrailingZeros(_)
IntTrailingZeros(n) == IF n % 2 = 1 THEN 0 ELSE 1 + IntTrailingZeros(n \div 2)

RECURSIVE FCanon(_, _)
FCanon(m, e) ==
    IF Len(m) = 0 THEN FZero
    ELSE IF m[1] = 0 THEN FCanon(Tail(m), e + 15)
    ELSE IF m[1] % 2 = 1 THEN [m |-> m, e |-> e]
    ELSE LET z == IntTrailingZeros(m[1])
         IN  [m |-> BigShr(m, z), e |-> e + z]

\* the float nearest to n * 2^e (+ a little, when sticky): round to nearest,
\* ties to even, on MantBits bits
FRound(n, e, sticky) ==
    LET len == BigBitLen(n)
    IN  IF len <= MantBits THEN FCanon(n, e)
        ELSE LET s    == len - MantBits
                 q    == BigShr(n, s)
                 half == BigBit(n, s - 1) = 1
                 low  == sticky \/ BigAnyBelow(n, s - 1)
                 up   == half /\ (low \/ BigIsOdd(q))
             IN  FCanon(IF up THEN BigAdd(q, <<1>>) ELSE q, e + s)

\* float(n), n >= 0
FromInt(n) == FCanon(BigFromInt(n), 0)

FIsZero(a) == Len(a.m) = 0

\* a * b
FMul(a, b) == FRound(BigMul(a.m, b.m), a.e + b.e, FALSE)

\* a / b, b # 0.0 : the quotient is developed to at least MantBits + 2 bits
FDiv(a, b) ==
    IF FIsZero(a) THEN FZero
    ELSE LET k  == Max(0, BigBitLen(b.m) - BigBitLen(a.m) + MantBits + 2)
             dm == BigDivMod(BigShl(a.m, k), b.m)
         IN  FRound(dm.q, a.e - b.e - k, Len(dm.r) # 0)

\* math.sqrt(a) : the root is developed to at least MantBits + 2 bits
FSqrt(a) ==
    IF FIsZero(a) THEN FZero
    ELSE LET k0 == Max(0, 2 * (MantBits + 2) - BigBitLen(a.m))
             k  == IF (a.e - k0) % 2 = 0 THEN k0 ELSE k0 + 1
             sr == BigSqrt(BigShl(a.m, k))
         IN  FRound(sr.root, (a.e - k) \div 2, Len(sr.rem) # 0)

\* whether a is a whole number
FIsInt(a) == a.e >= 0

\* math.floor(a), also int(a) : a >= 0
FFloor(a) ==
    IF a.e >= 0 THEN BigToInt(BigShl(a.m, a.e)) ELSE BigToInt(BigShr(a.m, 0 - a.e))

\* math.ceil(a)
FCeil(a) == IF FIsInt(a) THEN FFloor(a) ELSE FFloor(a) + 1

\* round(a) : to the nearest integer, a tie to the even one
FRoundInt(a) ==
    IF FIsInt(a) THEN FFloor(a)
    ELSE LET fl == FFloor(a)
         IN  IF a.e = -1 THEN (IF fl % 2 = 0 THEN fl ELSE fl + 1)
             ELSE IF BigBit(a.m, 0 - a.e - 1) = 1 THEN fl + 1 ELSE fl

\* a > n, n an integer
FGtInt(a, n) == FFloor(a) > n \/ (FFloor(a) = n /\ ~FIsInt(a))

\* a < b
FLess(a, b) ==
    BigCmp(BigShl(a.m, a.e - Min(a.e, b.e)), BigShl(b.m, b.e - Min(a.e, b.e))) = -1

\* min(a, b)
FMin(a, b) == IF FLess(b, a) THEN b ELSE a

\* a rounding to no decimals where one decimal is asked for
FRound0(a) == FromInt(FRoundInt(a))

\* round(a, 1) : the decimal with one digit nearest to the exact value of a
\* (a tie to the even digit), then the float nearest to that decimal
FRound1(a) ==
    LET t  == [m |-> BigMulSmall(a.m, 10), e |-> a.e]
        fl == FFloor(t)
        d  == IF t.e >= 0 THEN fl
              ELSE LET half == BigBit(t.m, 0 - t.e - 1) = 1
                       low  == BigAnyBelow(t.m, 0 - t.e - 1)
                   IN  IF half /\ (low \/ fl % 2 = 1) THEN fl + 1 ELSE fl
    IN  FDiv(FromInt(d), FromInt(10))

---------------------------------------------------------------------------
(* Results: a call returns a value or raises.  The code raises ValueError  *)
(* at four places, KeyError for a missing key and ZeroDivisionError; the   *)
(* status names the place (the names are those of the error taxonomy).     *)

Ok(v) == [status |-> "ok", value |-> v]
Raise(err) == [status |-> err, value |-> <<>>]

RECURSIVE Collect(_)
\* a list display [r1, r2, ...] evaluates its elements in order: the first
\* one that raises ends the evaluation
Collect(rs) ==
    IF Len(rs) = 0 THEN Ok(<<>>)
    ELSE IF rs[1].status # "ok" THEN rs[1]
    ELSE LET rest == Collect(Tail(rs))
         IN  IF rest.status # "ok" THEN rest
             ELSE Ok(<<rs[1].value>> \o rest.value)

---------------------------------------------------------------------------
(* Rounding primitives.  number / factor is a float whose magnitude is the *)
(* correctly rounded quotient of the magnitudes and whose sign is the      *)
(* product of the signs; round, math.ceil and math.floor of a negative     *)
(* quotient -q are -round(q), -floor(q) and -ceil(q).                      *)

PyRound(negative, q) == IF negative THEN 0 - FRoundInt(q) ELSE FRoundInt(q)
PyCeil(negative, q) == IF negative THEN 0 - FFloor(q) ELSE FCeil(q)
PyFloor(negative, q) == IF negative THEN 0 - FCeil(q) ELSE FFloor(q)

\* number / factor for a float number >= 0 and an integer factor # 0
Quotient(number, factor) == FDiv(number, FromInt(Abs(factor)))

\* a re-snap that forgets the grid: the scaled length is only truncated
floor_by_factor_unsnapped(number, factor) == FFloor(number)

\* a re-snap that rounds the scaled length up instead of down
floor_by_factor_up(number, factor) ==
    PyCeil(factor < 0, Quotient(number, factor)) * factor

\* the three primitives on a float number >= 0 and an integer factor # 0
round_by_factor(number, factor) ==
    PyRound(factor < 0, Quotient(number, factor)) * factor

ceil_by_factor(number, factor) ==
    PyCeil(factor < 0, Quotient(number, factor)) * factor

floor_by_factor(number, factor) ==
    PyFloor(factor < 0, Quotient(number, factor)) * factor

\* a zero factor that snaps everything to 0 instead of raising
SnapInteger_total(snapped, mirrored, number, factor) ==
    IF factor = 0 THEN Ok(0)
    ELSE IF number >= 0 THEN Ok(snapped) ELSE Ok(0 - mirrored)

\* a call on an integer number of either sign: the division raises when
\* factor = 0; a negative number negates the quotient, so the result is
\* minus that of the mirrored primitive on -number
SnapInteger(snapped, mirrored, number, factor) ==
    IF factor = 0 THEN Raise("ZeroDivisionError")
    ELSE IF number >= 0 THEN Ok(snapped) ELSE Ok(0 - mirrored)

round_by_factor_of_integer(number, factor) ==
    SnapInteger(round_by_factor(FromInt(Abs(number)), factor),
                round_by_factor(FromInt(Abs(number)), factor), number, factor)

ceil_by_factor_of_integer(number, factor) ==
    SnapInteger(ceil_by_factor(FromInt(Abs(number)), factor),
                floor_by_factor(FromInt(Abs(number)), factor), number, factor)

\* floor_by_factor as int(number / factor) * factor: the quotient is
\* truncated toward zero instead of floored
floor_by_factor_truncating(number, factor) ==
    SnapInteger(floor_by_factor(FromInt(Abs(number)), factor),
                floor_by_factor(FromInt(Abs(number)), factor), number, factor)

floor_by_factor_of_integer(number, factor) ==
    SnapInteger(floor_by_factor(FromInt(Abs(number)), factor),
                ceil_by_factor(FromInt(Abs(number)), factor), number, factor)

---------------------------------------------------------------------------
(* smart_resize, for natural numbers height, width, min_pixels,            *)
(* max_pixels and max_long_side, and an integer factor.                    *)

AspectRatioBoundInMessage == 100
AspectRatioBound == 200

\* a pre-clamp that is skipped: the dimensions go on as they came
PreClamp_skipped(height, width, max_long_side) == <<height, width>>

\* the dimensions after the max_long_side pre-clamp (max_long_side > 0)
PreClamp(height, width, max_long_side) ==
    IF Max(height, width) > max_long_side
    THEN LET beta == FDiv(FromInt(Max(height, width)), FromInt(max_long_side))
         IN  <<FFloor(FDiv(FromInt(height), beta)), FFloor(FDiv(FromInt(width), beta))>>
    ELSE <<height, width>>

\* the budget steps on the (pre-clamped) dimensions, factor # 0
Budget(height, width, factor, min_pixels, max_pixels) ==
    LET h_bar == round_by_factor(FromInt(height), factor)
        w_bar == round_by_factor(FromInt(width), factor)
    IN  IF h_bar * w_bar > max_pixels THEN
            IF max_pixels = 0 THEN Raise("ZeroDivisionError")
            ELSE LET beta == FSqrt(FDiv(FromInt(height * width), FromInt(max_pixels)))
                 IN  Ok(<<floor_by_factor(FDiv(FromInt(height), beta), factor),
                          floor_by_factor(FDiv(FromInt(width), beta), factor)>>)
        ELSE IF h_bar * w_bar < min_pixels THEN
            IF height * width = 0 THEN Raise("ZeroDivisionError")
            ELSE LET beta == FSqrt(FDiv(FromInt(min_pixels), FromInt(height * width)))
                 IN  Ok(<<ceil_by_factor(FMul(FromInt(height), beta), factor),
                          ceil_by_factor(FMul(FromInt(width), beta), factor)>>)
        ELSE Ok(<<h_bar, w_bar>>)

\* the two guards in the other order: the aspect ratio is looked at first
smart_resize_ratio_first(height, width, factor, min_pixels, max_pixels, max_long_side) ==
    IF Min(height, width) > 0
       /\ FGtInt(FDiv(FromInt(Max(height, width)), FromInt(Min(height, width))),
                 AspectRatioBound)
    THEN Raise("AspectRatioTooExtreme")
    ELSE IF height < 2 \/ width < 2 THEN Raise("InvalidDimensions")
    ELSE IF Max(height, width) > max_long_side /\ max_long_side = 0
    THEN Raise("ZeroDivisionError")
    ELSE IF factor = 0 THEN Raise("ZeroDivisionError")
    ELSE LET hw == PreClamp(height, width, max_long_side)
         IN  Budget(hw[1], hw[2], factor, min_pixels, max_pixels)

smart_resize(height, width, factor, min_pixels, max_pixels, max_long_side) ==
    IF height < 2 \/ width < 2 THEN Raise("InvalidDimensions")
    ELSE IF FGtInt(FDiv(FromInt(Max(height, width)), FromInt(Min(height, width))),
                   AspectRatioBound)
    THEN Raise("AspectRatioTooExtreme")
    ELSE IF Max(height, width) > max_long_side /\ max_long_side = 0
    THEN Raise("ZeroDivisionError")
    ELSE IF factor = 0 THEN Raise("ZeroDivisionError")
    ELSE LET hw == PreClamp(height, width, max_long_side)
         IN  Budget(hw[1], hw[2], factor, min_pixels, max_pixels)

---------------------------------------------------------------------------
(* update_image_size: an Image Element is a function from its keys to     *)
(* numbers.                                                                *)

SizerMaxLongSide == 50000
FramingTokens == 2

SizedKeys == {"resized_height", "resized_width", "seq_len"}

\* an update that replaces the record by the keys given
DictUpdate_replacing(d, u) == u

\* dict.update: the keys given are set, every other key is kept
DictUpdate(d, u) == [k \in DOMAIN d \cup DOMAIN u |-> IF k \in DOMAIN u THEN u[k] ELSE d[k]]

\* image_ele.update({...}) and the return, for the size smart_resize has
\* returned or the error it has raised; on an error the record is left as
\* it was
UpdateWithSize(image_ele, resized, pixels_per_token) ==
    IF resized.status # "ok" THEN resized
    ELSE IF pixels_per_token = 0 THEN Raise("ZeroDivisionError")
    ELSE Ok(DictUpdate(image_ele,
             [resized_height |-> resized.value[1],
              resized_width  |-> resized.value[2],
              seq_len |-> (resized.value[1] * resized.value[2]) \div pixels_per_token
                             + FramingTokens]))

\* a sizer that snaps to the patch grid and forgets the merge step
update_image_size_patch_grid(image_ele, min_tokens, max_tokens, merge_base, patch_size) ==
    UpdateWithSize(image_ele,
                   smart_resize(image_ele["height"], image_ele["width"],
                                patch_size,
                                patch_size * patch_size * merge_base * merge_base * min_tokens,
                                patch_size * patch_size * merge_base * merge_base * max_tokens,
                                SizerMaxLongSide),
                   patch_size * patch_size * merge_base * merge_base)

\* the value returned (the record, updated) or the error raised
update_image_size(image_ele, min_tokens, max_tokens, merge_base, patch_size) ==
    UpdateWithSize(image_ele,
                   smart_resize(image_ele["height"], image_ele["width"],
                                merge_base * patch_size,
                                patch_size * patch_size * merge_base * merge_base * min_tokens,
                                patch_size * patch_size * merge_base * merge_base * max_tokens,
                                SizerMaxLongSide),
                   patch_size * patch_size * merge_base * merge_base)

---------------------------------------------------------------------------
(* Coordinate converter.  A coordinate of an integer format (abs_origin,   *)
(* abs_resized, qwen-vl) is an integer, one of a float format (rel, molmo) *)
(* a float.                                                                *)

Formats == {"abs_origin", "abs_resized", "qwen-vl", "rel", "molmo"}
FloatFormats == {"rel", "molmo"}

QwenScale == 999
MolmoScale == 100

ResizedKey(dim) == IF dim = "width" THEN "resized_width" ELSE "resized_height"

\* a coordinate as the float the arithmetic sees
Num(v, format) == IF format \in FloatFormats THEN v ELSE FromInt(v)

\* what a source coordinate is divided by before it is scaled to the raw
\* dimension
SourceScale(image_ele, dim, src_format) ==
    IF src_format = "abs_resized" THEN image_ele[ResizedKey(dim)]
    ELSE IF src_format = "qwen-vl" THEN QwenScale
    ELSE MolmoScale

\* one coordinate of the to-canonical leg; v a float, dim the raw dimension
\* ("width" for x, "height" for y) it is measured against:
\*   abs_origin   int(v)
\*   abs_resized  int(v / resized_dim * raw_dim)
\*   qwen-vl      int(v / 999 * raw_dim)
\*   rel          int(v * raw_dim)
\*   molmo        int(v / 100 * raw_dim)
ToAbsOrigin(v, image_ele, dim, src_format) ==
    IF src_format = "abs_origin" THEN Ok(FFloor(v))
    ELSE IF src_format = "abs_resized" /\ ResizedKey(dim) \notin DOMAIN image_ele
    THEN Raise("MissingResizedDimensions")
    ELSE IF src_format = "abs_resized" /\ image_ele[ResizedKey(dim)] = 0
    THEN Raise("ZeroDivisionError")
    ELSE Ok(FFloor(FMul(IF src_format = "rel" THEN v
                        ELSE FDiv(v, FromInt(SourceScale(image_ele, dim, src_format))),
                        FromInt(image_ele[dim]))))

\* a from-canonical leg that reads the resized dimensions with a default:
\* a record without them is scaled to its raw dimensions
FromAbsOrigin_defaulting(v, image_ele, dim, tgt_format) ==
    IF tgt_format = "abs_resized" /\ ResizedKey(dim) \notin DOMAIN image_ele
    THEN Ok(FFloor(v))
    ELSE IF tgt_format = "abs_origin" THEN Ok(FFloor(v))
    ELSE IF tgt_format = "rel" THEN Ok(FDiv(v, FromInt(image_ele[dim])))
    ELSE IF tgt_format = "molmo"
    THEN Ok(FRound1(FMul(FDiv(v, FromInt(image_ele[dim])), FromInt(MolmoScale))))
    ELSE Ok(FFloor(FMul(FDiv(v, FromInt(image_ele[dim])),
                        FromInt(IF tgt_format = "qwen-vl" THEN QwenScale
                                ELSE image_ele[ResizedKey(dim)]))))

\* what the fraction of the raw dimension is multiplied by for a target
TargetScale(image_ele, dim, tgt_format) ==
    IF tgt_format = "abs_resized" THEN image_ele[ResizedKey(dim)]
    ELSE IF tgt_format = "qwen-vl" THEN QwenScale
    ELSE MolmoScale

\* a from-canonical leg that returns the scaled value as computed
Stored_unrounded(x, tgt_format) == x

\* a from-canonical leg that rounds to the nearest integer where the code
\* takes the integer part
Stored_nearest(x, tgt_format) ==
    IF tgt_format = "molmo" THEN FRound1(x) ELSE FRoundInt(x)

\* the scaled value as the target stores it: one decimal for molmo, the
\* integer part for abs_resized and qwen-vl
Stored(x, tgt_format) == IF tgt_format = "molmo" THEN FRound1(x) ELSE FFloor(x)

\* one coordinate of the from-canonical leg; v a float:
\*   abs_origin   int(v)
\*   abs_resized  int(v / raw_dim * resized_dim)
\*   qwen-vl      int(v / raw_dim * 999)
\*   rel          float(v / raw_dim)
\*   molmo        round(v / raw_dim * 100, 1)
FromAbsOrigin(v, image_ele, dim, tgt_format) ==
    IF tgt_format = "abs_origin" THEN Ok(FFloor(v))
    ELSE IF image_ele[dim] = 0 THEN Raise("ZeroDivisionError")
    ELSE IF tgt_format = "abs_resized" /\ ResizedKey(dim) \notin DOMAIN image_ele
    THEN Raise("MissingResizedDimensions")
    ELSE IF tgt_format = "rel" THEN Ok(FDiv(v, FromInt(image_ele[dim])))
    ELSE Ok(Stored(FMul(FDiv(v, FromInt(image_ele[dim])),
                        FromInt(TargetScale(image_ele, dim, tgt_format))),
                   tgt_format))

\* x coordinates are measured against the width, y coordinates against the height
BBoxDims == <<"width", "height", "width", "height">>
PointDims == <<"width", "height">>

\* a from-canonical leg that measures x against the height and y against the width
_convert_bbox_from_abs_origin_transposed(bbox, image_ele, tgt_format) ==
    IF tgt_format \notin Formats THEN Raise("UnknownCoordinateFormat")
    ELSE Collect([i \in 1..4 |->
            FromAbsOrigin(Num(bbox[i], "abs_origin"), image_ele, BBoxDims[5 - i], tgt_format)])

_convert_bbox_from_abs_origin(bbox, image_ele, tgt_format) ==
    IF tgt_format \notin Formats THEN Raise("UnknownCoordinateFormat")
    ELSE Collect([i \in 1..4 |->
            FromAbsOrigin(Num(bbox[i], "abs_origin"), image_ele, BBoxDims[i], tgt_format)])

_convert_bbox_to_abs_origin(bbox, image_ele, src_format) ==
    IF src_format \notin Formats THEN Raise("UnknownCoordinateFormat")
    ELSE Collect([i \in 1..4 |->
            ToAbsOrigin(Num(bbox[i], src_format), image_ele, BBoxDims[i], src_format)])

\* the second statement of convert_bbox_format, reached when the first has
\* not raised
BBoxFromCanonical(bbox_abs_origin, image_ele, tgt_format) ==
    IF bbox_abs_origin.status # "ok" THEN bbox_abs_origin
    ELSE _convert_bbox_from_abs_origin(bbox_abs_origin.value, image_ele, tgt_format)

convert_bbox_format(bbox, image_ele, src_format, tgt_format) ==
    BBoxFromCanonical(_convert_bbox_to_abs_origin(bbox, image_ele, src_format),
                      image_ele, tgt_format)

\* a from-canonical leg whose dispatch has no final else: a target it does
\* not know leaves the canonical value as it is
_convert_point_from_abs_origin_lenient(point, image_ele, tgt_format) ==
    Collect([i \in 1..2 |->
        FromAbsOrigin(Num(point[i], "abs_origin"), image_ele, PointDims[i],
                      IF tgt_format \in Formats THEN tgt_format ELSE "abs_origin")])

_convert_point_from_abs_origin(point, image_ele, tgt_format) ==
    IF tgt_format \notin Formats THEN Raise("UnknownCoordinateFormat")
    ELSE Collect([i \in 1..2 |->
            FromAbsOrigin(Num(point[i], "abs_origin"), image_ele, PointDims[i], tgt_format)])

\* a to-canonical leg that measures x against the height and y against the width
_convert_point_to_abs_origin_transposed(point, image_ele, src_format) ==
    IF src_format \notin Formats THEN Raise("UnknownCoordinateFormat")
    ELSE Collect([i \in 1..2 |->
            ToAbsOrigin(Num(point[i], src_format), image_ele, PointDims[3 - i], src_format)])

_convert_point_to_abs_origin(point, image_ele, src_format) ==
    IF src_format \notin Formats THEN Raise("UnknownCoordinateFormat")
    ELSE Collect([i \in 1..2 |->
            ToAbsOrigin(Num(point[i], src_format), image_ele, PointDims[i], src_format)])

\* the second statement of convert_point_format, reached when the first has
\* not raised
PointFromCanonical(point_abs_origin, image_ele, tgt_format) ==
    IF point_abs_origin.status # "ok" THEN point_abs_origin
    ELSE _convert_point_from_abs_origin(point_abs_origin.value, image_ele, tgt_format)

\* a converter with a shortcut from qwen-vl to rel that skips the canonical
\* integer pixel
convert_point_format_direct(point, image_ele, src_format, tgt_format) ==
    IF src_format = "qwen-vl" /\ tgt_format = "rel"
    THEN Ok([i \in 1..2 |-> FDiv(FromInt(point[i]), FromInt(QwenScale))])
    ELSE PointFromCanonical(_convert_point_to_abs_origin(point, image_ele, src_format),
                            image_ele, tgt_format)

convert_point_format(point, image_ele, src_format, tgt_format) ==
    PointFromCanonical(_convert_point_to_abs_origin(point, image_ele, src_format),
                       image_ele, tgt_format)

---------------------------------------------------------------------------
(* The state: the Image Element record the caller holds, the last call     *)
(* made on the module and what it returned or raised, and the progress of  *)
(* a chain of conversions the caller feeds back into the converter.        *)

VARIABLES image_ele, call, ret, chain, _latest_screenshot_hash, threads

vars == <<image_ele, call, ret, chain, _latest_screenshot_hash, threads>>

Element(w, h) == [width |-> w, height |-> h]

NoCall == [op |-> "none"]
NoRet == [status |-> "none", value |-> <<>>]
NoChain == [leg |-> 0, kind |-> "none", start |-> <<>>, cur |-> <<>>]
None == <<>>
NoThreads == <<>>

ChainFormats == <<"abs_origin", "qwen-vl", "rel", "molmo", "abs_resized", "abs_origin">>
ChainLegs == Len(ChainFormats) - 1

\* the caller is between two calls
Idle == call.op = "none"

\* the caller takes the result of the last call; a chain under way goes on
Return ==
    /\ ~Idle
    /\ chain.leg \notin 1..ChainLegs
    /\ call' = NoCall
    /\ ret' = NoRet
    /\ chain' = NoChain
    /\ UNCHANGED <<image_ele, _latest_screenshot_hash, threads>>

---------------------------------------------------------------------------
(* Calls of smart_resize.                                                  *)

MaxSmallSide == 3
MaxSmallFactor == 2

Heights == (0..MaxSmallSide) \cup {10, 20, 28, 100, 1000}
Widths == (1..MaxSmallSide) \cup {10, 100, 400, 401, 600, 601, 2000, 4000}
Factors == (1..MaxSmallFactor) \cup {10, 28}
\* <<min_pixels, max_pixels>>
PixelBounds == {<<784, 784>>, <<100, 2500>>, <<3136, 1254400>>,
                <<40000, 90000>>, <<2500, 100>>}
LongSides == {100, 8192}

InitResize ==
    /\ image_ele = Element(1920, 1080)
    /\ call = NoCall
    /\ ret = NoRet
    /\ chain = NoChain
    /\ _latest_screenshot_hash = None
    /\ threads = NoThreads

SmartResize ==
    /\ Idle
    /\ \E h \in Heights, w \in Widths, f \in Factors, p \in PixelBounds, m \in LongSides :
        /\ call' = [op |-> "smart_resize", height |-> h, width |-> w, factor |-> f,
                    min_pixels |-> p[1], max_pixels |-> p[2], max_long_side |-> m]
        /\ ret' = smart_resize(h, w, f, p[1], p[2], m)
    /\ UNCHANGED <<image_ele, chain, _latest_screenshot_hash, threads>>

NextResize == SmartResize \/ Return

SpecResize == InitResize /\ [][NextResize]_vars

---------------------------------------------------------------------------
(* Calls of update_image_size on the caller's record.                      *)

MaxSmallTokens == 3

TokenCounts == (1..MaxSmallTokens) \cup {16, 12800}
\* <<merge_base, patch_size>>
PatchGeometries == {<<2, 14>>, <<1, 1>>, <<1, 10>>}
\* a record that carries a key the sizer knows nothing about
TaggedElement == [width |-> 100, height |-> 100, step |-> 7]

SizerElements ==
    {Element(w, h) : w \in {1, 10, 14, 30, 100, 4000}, h \in {2, 10, 20, 100}}
        \cup {TaggedElement}

\* <<min_tokens, max_tokens, merge_base, patch_size>> : the defaults, and a
\* one-pixel grid
ConverterSizings == {<<1, 12800, 2, 14>>, <<1, 12800, 1, 1>>}

InitSize ==
    /\ image_ele \in SizerElements
    /\ call = NoCall
    /\ ret = NoRet
    /\ chain = NoChain
    /\ _latest_screenshot_hash = None
    /\ threads = NoThreads

UpdateImageSizeWith(min_tokens, max_tokens, merge_base, patch_size) ==
    /\ Idle
    /\ call' = [op |-> "update_image_size", before |-> image_ele,
                min_tokens |-> min_tokens, max_tokens |-> max_tokens,
                merge_base |-> merge_base, patch_size |-> patch_size]
    /\ ret' = update_image_size(image_ele, min_tokens, max_tokens, merge_base, patch_size)
    /\ image_ele' = IF ret'.status = "ok" THEN ret'.value ELSE image_ele
    /\ UNCHANGED <<chain, _latest_screenshot_hash, threads>>

\* the first sizing of a record
UpdateImageSize ==
    /\ "seq_len" \notin DOMAIN image_ele
    /\ \E mn \in TokenCounts, mx \in TokenCounts, g \in PatchGeometries :
        UpdateImageSizeWith(mn, mx, g[1], g[2])

\* a sizing of a record sized or not: a sized record is sized again
SizeImage ==
    \E z \in ConverterSizings : UpdateImageSizeWith(z[1], z[2], z[3], z[4])

NextSize == UpdateImageSize \/ SizeImage \/ Return

SpecSize == InitSize /\ [][NextSize]_vars

---------------------------------------------------------------------------
(* Calls of the converter on the caller's record, sized or not.            *)

CoordSteps == 4
NumSamples == CoordSteps + 5

\* the k-th sample of 0..range, k in 0..NumSamples-1; the last one sits at
\* 7/111 of the range, a fraction the float quotient falls just short of
SampleAt(range, k) ==
    IF k <= CoordSteps THEN (range * k) \div CoordSteps
    ELSE IF k = CoordSteps + 1 THEN Min(1, range)
    ELSE IF k = CoordSteps + 2 THEN Min(2, range)
    ELSE IF k = CoordSteps + 3 THEN Max(range - 1, 0)
    ELSE (range * 7) \div 111

RelDigits == 1000
\* molmo values carry one decimal
MolmoTenths == 10

\* the largest coordinate of a format along a dimension of the record
FormatRange(e, format, dim) ==
    IF format = "qwen-vl" THEN QwenScale
    ELSE IF format = "abs_resized" /\ ResizedKey(dim) \in DOMAIN e THEN e[ResizedKey(dim)]
    ELSE e[dim]

\* the k-th sample coordinate of a format: an integer of its range, a rel
\* value with three decimals, a molmo value with one decimal
CoordAt(e, format, dim, k) ==
    IF format = "rel"
    THEN FDiv(FromInt(SampleAt(RelDigits, k)), FromInt(RelDigits))
    ELSE IF format = "molmo"
    THEN FDiv(FromInt(SampleAt(MolmoScale * MolmoTenths, k)), FromInt(MolmoTenths))
    ELSE SampleAt(FormatRange(e, format, dim), k)

PointAt(e, format, k) ==
    <<CoordAt(e, format, "width", k), CoordAt(e, format, "height", (k + 3) % NumSamples)>>

BBoxAt(e, format, k) ==
    <<CoordAt(e, format, "width", k), CoordAt(e, format, "height", (k + 3) % NumSamples),
      CoordAt(e, format, "width", (k + 1) % NumSamples),
      CoordAt(e, format, "height", (k + 4) % NumSamples)>>

\* the sample boxes of a format, and for abs_origin a box of whole tenths
\* of a 1000 x 1000 image as well, on the images it lies in
BBoxesAt(e, format) ==
    {BBoxAt(e, format, k) : k \in 0..(NumSamples - 1)}
        \cup (IF format = "abs_origin" /\ e["width"] >= 200 /\ e["height"] >= 200
              THEN {<<100, 100, 200, 200>>} ELSE {})

UnknownFormat == "xyxy"
CallFormats == Formats \cup {UnknownFormat}

\* a record a caller has filled by hand and only in part
HalfSizedElement == [width |-> 49, height |-> 98, resized_width |-> 56]

ConverterElements ==
    {Element(1, 2), Element(49, 98), Element(333, 500), Element(1000, 1000),
     Element(1920, 1080), HalfSizedElement}
InitConv ==
    /\ image_ele \in ConverterElements
    /\ call = NoCall
    /\ ret = NoRet
    /\ chain = NoChain
    /\ _latest_screenshot_hash = None
    /\ threads = NoThreads

ConvertPoint ==
    /\ Idle
    /\ \E src \in CallFormats, tgt \in CallFormats, k \in 0..(NumSamples - 1) :
        LET point == PointAt(image_ele, src, k)
        IN  /\ call' = [op |-> "convert_point_format", value |-> point,
                        src_format |-> src, tgt_format |-> tgt]
            /\ ret' = convert_point_format(point, image_ele, src, tgt)
            /\ UNCHANGED <<image_ele, chain, _latest_screenshot_hash, threads>>

ConvertBBox ==
    /\ Idle
    /\ \E src \in CallFormats, tgt \in CallFormats :
        \E bbox \in BBoxesAt(image_ele, src) :
            /\ call' = [op |-> "convert_bbox_format", value |-> bbox,
                        src_format |-> src, tgt_format |-> tgt]
            /\ ret' = convert_bbox_format(bbox, image_ele, src, tgt)
            /\ UNCHANGED <<image_ele, chain, _latest_screenshot_hash, threads>>

NextConv == SizeImage \/ ConvertPoint \/ ConvertBBox \/ Return

SpecConv == InitConv /\ [][NextConv]_vars

---------------------------------------------------------------------------
(* A chain of conversions: the caller converts an abs_origin value to      *)
(* qwen-vl, the result to rel, and so on back to abs_origin, each step     *)
(* one call of the converter on the same record.                           *)

ChainStart ==
    /\ Idle
    /\ chain.leg = 0
    /\ \E kind \in {"point", "bbox"}, k \in 0..(NumSamples - 1) :
        LET v == IF kind = "point" THEN PointAt(image_ele, "abs_origin", k)
                 ELSE BBoxAt(image_ele, "abs_origin", k)
        IN  chain' = [leg |-> 1, kind |-> kind, start |-> v, cur |-> v]
    /\ call' = NoCall
    /\ ret' = NoRet
    /\ UNCHANGED <<image_ele, _latest_screenshot_hash, threads>>

ChainStep ==
    /\ chain.leg \in 1..ChainLegs
    /\ LET src == ChainFormats[chain.leg]
           tgt == ChainFormats[chain.leg + 1]
       IN  /\ call' = [op |-> IF chain.kind = "point" THEN "convert_point_format"
                              ELSE "convert_bbox_format",
                       value |-> chain.cur, src_format |-> src, tgt_format |-> tgt]
           /\ ret' = IF chain.kind = "point"
                     THEN convert_point_format(chain.cur, image_ele, src, tgt)
                     ELSE convert_bbox_format(chain.cur, image_ele, src, tgt)
           /\ chain' = IF ret'.status = "ok"
                       THEN [chain EXCEPT !.leg = chain.leg + 1, !.cur = ret'.value]
                       ELSE NoChain
    /\ UNCHANGED <<image_ele, _latest_screenshot_hash, threads>>

NextChain == SizeImage \/ ChainStart \/ ChainStep \/ Return

SpecChain == InitConv /\ [][NextChain]_vars

---------------------------------------------------------------------------
(* Calls of the rounding primitives on integers of either sign, and of     *)
(* smart_resize with a factor that is not positive.                        *)

MaxNumber == 40
MaxFactor == 7

Numbers == (0 - MaxNumber .. MaxNumber) \cup {-1920, 1079, 1000001}
GridFactors == (0 - MaxFactor .. MaxFactor) \cup {-28, 28}
NonPositiveFactors == {f \in GridFactors : f <= 0}

InitSnap ==
    /\ image_ele = Element(1920, 1080)
    /\ call = NoCall
    /\ ret = NoRet
    /\ chain = NoChain
    /\ _latest_screenshot_hash = None
    /\ threads = NoThreads

RoundByFactor ==
    /\ Idle
    /\ \E number \in Numbers, factor \in GridFactors :
        /\ call' = [op |-> "round_by_factor", number |-> number, factor |-> factor]
        /\ ret' = round_by_factor_of_integer(number, factor)
    /\ UNCHANGED <<image_ele, chain, _latest_screenshot_hash, threads>>

CeilByFactor ==
    /\ Idle
    /\ \E number \in Numbers, factor \in GridFactors :
        /\ call' = [op |-> "ceil_by_factor", number |-> number, factor |-> factor]
        /\ ret' = ceil_by_factor_of_integer(number, factor)
    /\ UNCHANGED <<image_ele, chain, _latest_screenshot_hash, threads>>

FloorByFactor ==
    /\ Idle
    /\ \E number \in Numbers, factor \in GridFactors :
        /\ call' = [op |-> "floor_by_factor", number |-> number, factor |-> factor]
        /\ ret' = floor_by_factor_of_integer(number, factor)
    /\ UNCHANGED <<image_ele, chain, _latest_screenshot_hash, threads>>

SmartResizeOffGrid ==
    /\ Idle
    /\ \E h \in {1, 3, 100, 1000}, w \in {3, 100, 2000}, f \in NonPositiveFactors,
          p \in {<<100, 2500>>, <<3136, 1254400>>} :
        /\ call' = [op |-> "smart_resize", height |-> h, width |-> w, factor |-> f,
                    min_pixels |-> p[1], max_pixels |-> p[2], max_long_side |-> 8192]
        /\ ret' = smart_resize(h, w, f, p[1], p[2], 8192)
    /\ UNCHANGED <<image_ele, chain, _latest_screenshot_hash, threads>>

NextSnap == RoundByFactor \/ CeilByFactor \/ FloorByFactor \/ SmartResizeOffGrid \/ Return

SpecSnap == InitSnap /\ [][NextSnap]_vars

---------------------------------------------------------------------------
(* Image bytes and the two helpers that decode them.  A byte string is     *)
(* empty, or is no image, or encodes an image of some format and size.     *)
(* The decoders are library code: cv2.imdecode raises cv2.error on an      *)
(* empty buffer, returns None on bytes that are no image and the pixel     *)
(* array otherwise; cv2.imencode reports success in its first result;      *)
(* Image.open raises on bytes that are no image, Image.resize on an empty  *)
(* size.                                                                   *)

EmptyBytes == [kind |-> "empty"]
GarbageBytes == [kind |-> "garbage"]
ImageBytes(format, width, height) ==
    [kind |-> "image", format |-> format, width |-> width, height |-> height]

\* <<new_w, new_h>> when scale < 1.0, the decoded size otherwise
Downscaled(width, height, scale) ==
    IF FLess(scale, FromInt(1))
    THEN <<Max(FFloor(FMul(FromInt(width), scale)), 1),
           Max(FFloor(FMul(FromInt(height), scale)), 1)>>
    ELSE <<width, height>>

\* cv2.imencode(".png", img) and the return that follows it
Reencoded(image, size, ok) ==
    IF ~ok THEN Ok(image) ELSE Ok(ImageBytes("png", size[1], size[2]))

\* the image is fitted to max_w x max_h whatever its size: the scale is not
\* capped at 1.0 and the resize is not guarded
Fitted(width, height, scale) ==
    <<Max(FFloor(FMul(FromInt(width), scale)), 1),
      Max(FFloor(FMul(FromInt(height), scale)), 1)>>

downscale_image_bytes_fitting(image, max_w, max_h, ok) ==
    IF image.kind = "empty" THEN Raise("cv2.error")
    ELSE IF image.kind # "image" THEN Ok(image)
    ELSE Reencoded(image,
                   Fitted(image.width, image.height,
                          FMin(FDiv(FromInt(max_w), FromInt(image.width)),
                               FDiv(FromInt(max_h), FromInt(image.height)))),
                   ok)

\* max_w, max_h >= 0; ok is what cv2.imencode reports
downscale_image_bytes(image, max_w, max_h, ok) ==
    IF image.kind = "empty" THEN Raise("cv2.error")
    ELSE IF image.kind # "image" THEN Ok(image)
    ELSE Reencoded(image,
                   Downscaled(image.width, image.height,
                              FMin(FMin(FDiv(FromInt(max_w), FromInt(image.width)),
                                        FDiv(FromInt(max_h), FromInt(image.height))),
                                   FromInt(1))),
                   ok)

\* the comparison is pixels[:, 1:] != pixels[:, :-1]
Flatten_unequal(pixels) ==
    [i \in 1..(Len(pixels) * (Len(pixels[1]) - 1)) |->
        LET row == pixels[((i - 1) \div (Len(pixels[1]) - 1)) + 1]
            col == ((i - 1) % (Len(pixels[1]) - 1)) + 1
        IN  IF row[col + 1] # row[col] THEN 1 ELSE 0]

\* the rows of pixels[:, 1:] > pixels[:, :-1], one after the other
Flatten(pixels) ==
    [i \in 1..(Len(pixels) * (Len(pixels[1]) - 1)) |->
        LET row == pixels[((i - 1) \div (Len(pixels[1]) - 1)) + 1]
            col == ((i - 1) % (Len(pixels[1]) - 1)) + 1
        IN  IF row[col + 1] > row[col] THEN 1 ELSE 0]

RECURSIVE Packed(_, _)
\* value = (value << 1) | int(bit), for each bit in turn; the value, which
\* is never negative, is worked out at every turn
Packed(value, bits) ==
    IF Len(bits) = 0 \/ value < 0 THEN value
    ELSE Packed(2 * value + bits[1], Tail(bits))

\* pillow: whether PIL can be imported; pixels: the grey levels of the
\* image resized to hash_size rows of hash_size + 1 columns
dhash(image_bytes, hash_size, pillow, pixels) ==
    IF ~pillow THEN Ok(0)
    ELSE IF image_bytes.kind # "image" THEN Ok(0)
    ELSE IF hash_size < 1 THEN Ok(0)
    ELSE Ok(Packed(0, Flatten(pixels)))

---------------------------------------------------------------------------
(* Calls of downscale_image_bytes and dhash.                               *)

ImageFormats == {"png", "jpeg"}
ImageWidths == {1, 2, 3, 640, 1280, 1281, 1920, 4000}
ImageHeights == {1, 2, 720, 721, 1080, 3000}
MaxWidths == {1, 2, 1280}
MaxHeights == {1, 3, 720}
HashSizes == {0, 1, 2}
Greys == {0, 255}

ByteStrings ==
    {EmptyBytes, GarbageBytes}
        \cup {ImageBytes(f, w, h) : f \in ImageFormats, w \in ImageWidths, h \in ImageHeights}

\* what decoding, grey conversion and resizing can leave of an image
Thumbnails(hash_size) == [1..hash_size -> [1..(hash_size + 1) -> Greys]]

InitCodec ==
    /\ image_ele = Element(1920, 1080)
    /\ call = NoCall
    /\ ret = NoRet
    /\ chain = NoChain
    /\ _latest_screenshot_hash = None
    /\ threads = NoThreads

DownscaleImageBytes ==
    /\ Idle
    /\ \E image \in ByteStrings, max_w \in MaxWidths, max_h \in MaxHeights, ok \in BOOLEAN :
        /\ call' = [op |-> "downscale_image_bytes", image |-> image,
                    max_w |-> max_w, max_h |-> max_h, encoded |-> ok]
        /\ ret' = downscale_image_bytes(image, max_w, max_h, ok)
    /\ UNCHANGED <<image_ele, chain, _latest_screenshot_hash, threads>>

DHash ==
    /\ Idle
    /\ \E image_bytes \in {EmptyBytes, GarbageBytes, ImageBytes("png", 1920, 1080)},
          hash_size \in HashSizes, pillow \in BOOLEAN :
        \E pixels \in IF pillow /\ image_bytes.kind = "image"
                      THEN Thumbnails(hash_size) ELSE {<<>>} :
            /\ call' = [op |-> "dhash", image_bytes |-> image_bytes,
                        hash_size |-> hash_size, pillow |-> pillow, pixels |-> pixels]
            /\ ret' = dhash(image_bytes, hash_size, pillow, pixels)
    /\ UNCHANGED <<image_ele, chain, _latest_screenshot_hash, threads>>

NextCodec == DownscaleImageBytes \/ DHash \/ Return

SpecCodec == InitCodec /\ [][NextCodec]_vars

---------------------------------------------------------------------------
(* The observer that sits on the VM controller: VMObserver keeps the hash  *)
(* of the last screenshot it encoded in _latest_screenshot_hash, None      *)
(* (here <<>>) when there is none, <<h>> when it is h.  The controller     *)
(* returns the bytes of a screenshot or raises VMControllerError.          *)

DefaultHashSize == 8

\* the grey levels Image.open, convert("L") and resize leave of a
\* screenshot: what they are depends on the bytes alone
ScreenPixels(bytes) ==
    [r \in 1..DefaultHashSize |-> [c \in 1..(DefaultHashSize + 1) |->
        IF /\ (bytes.width + bytes.height) % 3 # 0
           /\ r = DefaultHashSize
           /\ c = DefaultHashSize + 2 - ((bytes.width + bytes.height) % 3)
        THEN 255 ELSE 0]]

\* the statement self._latest_screenshot_hash = None is left out
Reset_kept(latest) == latest

\* self._latest_screenshot_hash = None
Reset(latest) == None

\* from destination.write_bytes to the return, scaled being the bytes to
\* write or what downscale_image_bytes raised: the bytes written, the
\* base64 text (here the bytes it encodes) and the hash that is kept
Persisted(scaled, latest, encode_base64, pillow) ==
    IF scaled.status # "ok" THEN [result |-> scaled, hash |-> latest]
    ELSE IF encode_base64
    THEN [result |-> Ok([written |-> scaled.value, b64 |-> <<scaled.value>>]),
          hash |-> <<dhash(scaled.value, DefaultHashSize, pillow,
                           ScreenPixels(scaled.value)).value>>]
    ELSE [result |-> Ok([written |-> scaled.value, b64 |-> None]),
          hash |-> latest]

\* shot is what self._client.capture_screenshot() returns, or of kind
\* "error" when it raises; ok and pillow are as in downscale_image_bytes
\* and dhash
capture_screenshot(latest, shot, encode_base64, downscale, max_width, max_height, ok, pillow) ==
    IF shot.kind = "error"
    THEN [result |-> Raise("VMControllerError"), hash |-> latest]
    ELSE Persisted(IF downscale
                   THEN downscale_image_bytes(shot, max_width, max_height, ok)
                   ELSE Ok(shot),
                   Reset(latest), encode_base64, pillow)

\* the screenshot part of an ObservationSnapshot, captured being what
\* self.capture_screenshot returned or raised; bool(encoded) is a base64
\* text that is not empty
Recorded(captured) ==
    IF captured.result.status = "VMControllerError"
    THEN [result |-> Ok([screenshot_path |-> None, screenshot_b64 |-> None,
                         raw_metadata |-> [screenshot_error |-> "VMControllerError"]]),
          hash |-> captured.hash]
    ELSE IF captured.result.status # "ok" THEN captured
    ELSE [result |-> Ok([screenshot_path |-> <<captured.result.value.written>>,
                         screenshot_b64 |-> captured.result.value.b64,
                         raw_metadata |->
                            IF /\ captured.result.value.b64 # None
                               /\ captured.result.value.b64[1].kind # "empty"
                               /\ captured.hash # None
                            THEN [screenshot_hash |-> captured.hash[1]]
                            ELSE [key \in {} |-> 0]]),
          hash |-> captured.hash]

snapshot(latest, shot, include_screenshot, encode_screenshot, pillow) ==
    IF ~include_screenshot
    THEN [result |-> Ok([screenshot_path |-> None, screenshot_b64 |-> None,
                         raw_metadata |-> [key \in {} |-> 0]]),
          hash |-> latest]
    ELSE Recorded(capture_screenshot(latest, shot, encode_screenshot, FALSE,
                                     1280, 720, TRUE, pillow))

---------------------------------------------------------------------------
(* Calls of VMObserver.capture_screenshot and VMObserver.snapshot.         *)

Screens ==
    {[kind |-> "error"], EmptyBytes, GarbageBytes, ImageBytes("png", 1920, 1080),
     ImageBytes("png", 1280, 720), ImageBytes("png", 4000, 3000)}

InitObserve ==
    /\ image_ele = Element(1920, 1080)
    /\ call = NoCall
    /\ ret = NoRet
    /\ chain = NoChain
    /\ _latest_screenshot_hash = None
    /\ threads = NoThreads

CaptureScreenshot ==
    /\ Idle
    /\ \E shot \in Screens, encode_base64 \in BOOLEAN, downscale \in BOOLEAN,
          ok \in BOOLEAN, pillow \in BOOLEAN :
        \E captured \in {capture_screenshot(_latest_screenshot_hash, shot, encode_base64,
                                            downscale, 1280, 720, ok, pillow)} :
            /\ call' = [op |-> "capture_screenshot", shot |-> shot,
                        encode_base64 |-> encode_base64, downscale |-> downscale,
                        encoded |-> ok, pillow |-> pillow,
                        before |-> _latest_screenshot_hash]
            /\ ret' = captured.result
            /\ _latest_screenshot_hash' = captured.hash
    /\ UNCHANGED <<image_ele, chain, threads>>

Snapshot ==
    /\ Idle
    /\ \E shot \in Screens, include_screenshot \in BOOLEAN, encode_screenshot \in BOOLEAN,
          pillow \in BOOLEAN :
        \E observed \in {snapshot(_latest_screenshot_hash, shot, include_screenshot,
                                  encode_screenshot, pillow)} :
            /\ call' = [op |-> "snapshot", shot |-> shot,
                        include_screenshot |-> include_screenshot,
                        encode_screenshot |-> encode_screenshot, pillow |-> pillow,
                        before |-> _latest_screenshot_hash]
            /\ ret' = observed.result
            /\ _latest_screenshot_hash' = observed.hash
    /\ UNCHANGED <<image_ele, chain, threads>>

NextObserve == CaptureScreenshot \/ Snapshot \/ Return

SpecObserve == InitObserve /\ [][NextObserve]_vars

---------------------------------------------------------------------------
(* Two callers size the same Image Element record at once while a third    *)
(* thread reads it.  update_image_size takes no lock: each caller reads    *)
(* height and width, works out its size, and hands the three fields to     *)
(* one image_ele.update call.  What other threads see of that call is up   *)
(* to the interpreter: with a global interpreter lock the three stores of  *)
(* a plain dict happen at once, on a free-threaded build the update holds  *)
(* the lock of the dict for its three stores and a subscript read, which   *)
(* takes no lock, can fall between them.  The stores are steps of their    *)
(* own here, so that both outcomes are behaviours of the model.            *)

Callers == {1, 2}

\* <<min_tokens, max_tokens, merge_base, patch_size>> of either caller
CallerSizings == <<<<1, 12800, 2, 14>>, <<1, 12800, 1, 1>>>>

\* the keys in the order of the dict literal
UpdateKeys == <<"resized_height", "resized_width", "seq_len">>

\* the stores of two updates of one dict are let through at any time
Free_always(lock, t) == TRUE

\* the dict is not in the middle of another thread's update
Free(lock, t) == lock \in {0, t}

InitRace ==
    /\ image_ele \in {Element(100, 100), Element(4000, 20), Element(30, 10), Element(1, 10)}
    /\ call = NoCall
    /\ ret = NoRet
    /\ chain = NoChain
    /\ _latest_screenshot_hash = None
    /\ threads = [caller |-> [t \in Callers |-> [pc |-> "called", update |-> <<>>, stored |-> 0]],
                  lock |-> 0,
                  seen |-> <<>>]

\* caller t reads height and width and gets its size from smart_resize
Resize(t) ==
    /\ threads # NoThreads
    /\ threads.caller[t].pc = "called"
    /\ \E sized \in {update_image_size(image_ele, CallerSizings[t][1], CallerSizings[t][2],
                                       CallerSizings[t][3], CallerSizings[t][4])} :
        threads' = [threads EXCEPT !.caller[t] =
                        IF sized.status = "ok"
                        THEN [pc |-> "update", update |-> [k \in SizedKeys |-> sized.value[k]],
                              stored |-> 0]
                        ELSE [pc |-> "raised", update |-> <<>>, stored |-> 0]]
    /\ UNCHANGED <<image_ele, call, ret, chain, _latest_screenshot_hash>>

\* image_ele.update({...}) of caller t stores its next key; after the last
\* one the call returns
Store(t) ==
    /\ threads # NoThreads
    /\ threads.caller[t].pc = "update"
    /\ Free(threads.lock, t)
    /\ \E k \in {UpdateKeys[threads.caller[t].stored + 1]} :
        image_ele' = DictUpdate(image_ele, [key \in {k} |-> threads.caller[t].update[k]])
    /\ threads' = IF threads.caller[t].stored + 1 = Len(UpdateKeys)
                  THEN [threads EXCEPT !.caller[t].pc = "returned",
                                       !.caller[t].stored = @ + 1,
                                       !.lock = 0]
                  ELSE [threads EXCEPT !.caller[t].stored = @ + 1, !.lock = t]
    /\ UNCHANGED <<call, ret, chain, _latest_screenshot_hash>>

\* the reader takes the next of the three fields out of the record, one
\* subscript at a time; <<>> stands for a key that is not there yet
Read ==
    /\ threads # NoThreads
    /\ Len(threads.seen) < Len(UpdateKeys)
    /\ \E k \in {UpdateKeys[Len(threads.seen) + 1]} :
        threads' = [threads EXCEPT !.seen =
                        Append(@, IF k \in DOMAIN image_ele THEN <<image_ele[k]>> ELSE <<>>)]
    /\ UNCHANGED <<image_ele, call, ret, chain, _latest_screenshot_hash>>

NextRace == (\E t \in Callers : Resize(t)) \/ (\E t \in Callers : Store(t)) \/ Read

SpecRace == InitRace /\ [][NextRace]_vars

---------------------------------------------------------------------------
(* Every call the model makes.                                             *)

Init == InitResize \/ InitSize \/ InitConv \/ InitSnap \/ InitCodec \/ InitObserve
          \/ InitRace

Next ==
    \/ SmartResize
    \/ UpdateImageSize
    \/ SizeImage
    \/ ConvertPoint
    \/ ConvertBBox
    \/ ChainStart
    \/ ChainStep
    \/ RoundByFactor
    \/ CeilByFactor
    \/ FloorByFactor
    \/ SmartResizeOffGrid
    \/ DownscaleImageBytes
    \/ DHash
    \/ CaptureScreenshot
    \/ Snapshot
    \/ (\E t \in Callers : Resize(t))
    \/ (\E t \in Callers : Store(t))
    \/ Read
    \/ Return

Spec == Init /\ [][Next]_vars

---------------------------------------------------------------------------
(* Properties of smart_resize, checked under SpecResize.                   *)

ResizeCalled == call.op = "smart_resize"
ResizeReturned == ResizeCalled /\ ret.status = "ok"

\* the area of the grid-aligned size before the budget steps, taken after
\* the max_long_side pre-clamp
GridAlignedArea ==
    LET hw == PreClamp(call.height, call.width, call.max_long_side)
    IN  round_by_factor(FromInt(hw[1]), call.factor)
          * round_by_factor(FromInt(hw[2]), call.factor)

\* C1: for height, width >= 2 with max/min <= 200 and positive factor,
\* min_pixels, max_pixels and max_long_side, both dimensions smart_resize
\* returns are exact multiples of factor.
C1_ReturnedDimsAreMultiplesOfFactor ==
    (/\ ResizeReturned
     /\ call.height >= 2 /\ call.width >= 2
     /\ Max(call.height, call.width) <= AspectRatioBound * Min(call.height, call.width)
     /\ call.factor > 0 /\ call.min_pixels > 0 /\ call.max_pixels > 0
     /\ call.max_long_side > 0)
    => /\ ret.value[1] % call.factor = 0
       /\ ret.value[2] % call.factor = 0

\* a 100 x 100 image shrunk onto a grid of 28 that neither side was on
C1_Witness ==
    /\ ResizeReturned
    /\ call.factor = 28 /\ call.height = 100 /\ call.width = 100
    /\ GridAlignedArea > call.max_pixels
    /\ ret.value[1] > 0 /\ ret.value[1] % 28 = 0
    /\ ret.value[2] > 0 /\ ret.value[2] % 28 = 0

\* C2: for factor > 0 and 0 < min_pixels <= max_pixels, when the grid-aligned
\* area (after the pre-clamp) exceeds max_pixels the returned area is at most
\* max_pixels, and when it is below min_pixels the returned area is at least
\* min_pixels.
C2_ReturnedAreaWithinTheBoundCrossed ==
    (/\ ResizeReturned
     /\ call.factor > 0
     /\ 0 < call.min_pixels /\ call.min_pixels <= call.max_pixels)
    => /\ GridAlignedArea > call.max_pixels
            => ret.value[1] * ret.value[2] <= call.max_pixels
       /\ GridAlignedArea < call.min_pixels
            => ret.value[1] * ret.value[2] >= call.min_pixels

\* the shrink step has run and left a size that is not empty
C2_Witness ==
    /\ ResizeReturned
    /\ 0 < call.min_pixels /\ call.min_pixels <= call.max_pixels
    /\ GridAlignedArea > call.max_pixels
    /\ ret.value[1] * ret.value[2] > 0
    /\ ret.value[1] * ret.value[2] <= call.max_pixels

\* C8: smart_resize raises InvalidDimensions and returns no size whenever
\* height < 2 or width < 2, whatever the other arguments are, and also when
\* the aspect ratio is above the bound.
C8_SmallSideRaisesInvalidDimensions ==
    (ResizeCalled /\ (call.height < 2 \/ call.width < 2))
    => ret = Raise("InvalidDimensions")

\* height 1, width 400: both guards apply and the first one decides
C8_Witness ==
    /\ ResizeCalled
    /\ call.height = 1 /\ call.width = 400
    /\ ret.status = "InvalidDimensions"

---------------------------------------------------------------------------
(* Properties of update_image_size, checked under SpecSize.                *)

SizeCalled == call.op = "update_image_size"
SizeReturned == SizeCalled /\ ret.status = "ok"

\* the grid pitch and the pixel budget of the call (lines 194-196)
CallGrid == call.merge_base * call.patch_size
CallMinPixels == call.patch_size * call.patch_size * call.merge_base * call.merge_base * call.min_tokens
CallMaxPixels == call.patch_size * call.patch_size * call.merge_base * call.merge_base * call.max_tokens

\* how many grid cells per side the search for an admissible size looks at
MaxGridCells == 5

\* gh x gw is what a uniformly scaled copy of the h x w image rounds to on
\* the grid of pitch f: some scale s has |s*h - gh| < f/2 and |s*w - gw| < f/2
KeepsAspect(gh, gw, h, w, f) ==
    /\ (2 * gh - f) * w < (2 * gw + f) * h
    /\ (2 * gw - f) * h < (2 * gh + f) * w

\* a grid-aligned size with the image's aspect ratio, up to rounding, exists
\* within the pixel budget
AdmissibleSizeExists ==
    \E kh, kw \in 1..MaxGridCells :
        /\ CallMinPixels <= kh * CallGrid * kw * CallGrid
        /\ kh * CallGrid * kw * CallGrid <= CallMaxPixels
        /\ KeepsAspect(kh * CallGrid, kw * CallGrid,
                       call.before.height, call.before.width, CallGrid)

\* C3: after update_image_size with 1 <= min_tokens <= max_tokens the resized
\* dimensions are non-negative multiples of merge_base * patch_size, and their
\* area lies within [min_pixels, max_pixels] whenever a grid-aligned size with
\* the image's aspect ratio (up to rounding) exists in that range; the growth
\* step for min_pixels never pushes the area above max_pixels.
C3_ResizedAreaWithinTokenBudget ==
    (/\ SizeReturned
     /\ 1 <= call.min_tokens /\ call.min_tokens <= call.max_tokens)
    => /\ image_ele.resized_height >= 0
       /\ image_ele.resized_width >= 0
       /\ image_ele.resized_height % CallGrid = 0
       /\ image_ele.resized_width % CallGrid = 0
       /\ AdmissibleSizeExists
            => /\ CallMinPixels <= image_ele.resized_height * image_ele.resized_width
               /\ image_ele.resized_height * image_ele.resized_width <= CallMaxPixels

---------------------------------------------------------------------------
(* Properties of the converter, checked under SpecConv.                    *)

ConvertCalled == call.op \in {"convert_point_format", "convert_bbox_format"}
ConvertReturned == ConvertCalled /\ ret.status = "ok"

\* a returned conversion whose source and target are the format f
RoundTripIn(f) ==
    ConvertReturned /\ call.src_format = f /\ call.tgt_format = f

\* the dimension the i-th coordinate of the call is measured against
RawDim(i) == image_ele[BBoxDims[i]]
ResizedDim(i) == image_ele[ResizedKey(BBoxDims[i])]

\* every dimension the record carries is at least 1
DimsAtLeastOne == \A k \in DOMAIN image_ele : k = "seq_len" \/ image_ele[k] >= 1


\* |a - b| * mul <= bound, exactly; a, b floats, mul and bound big naturals
FAbsDiffTimesLe(a, b, mul, bound) ==
    LET e == Min(a.e, b.e)
        x == BigShl(a.m, a.e - e)
        y == BigShl(b.m, b.e - e)
        d == IF BigCmp(x, y) >= 0 THEN BigSub(x, y) ELSE BigSub(y, x)
    IN  IF e >= 0 THEN BigCmp(BigTrim(BigMul(BigShl(d, e), mul)), bound) <= 0
        ELSE BigCmp(BigTrim(BigMul(d, mul)), BigShl(bound, 0 - e)) <= 0

\* a molmo value in tenths
TenthsOf(v) == FRoundInt(FMul(v, FromInt(MolmoTenths)))

\* The statement of C4 as it stands: converting v from a format to the same
\* format returns v exactly for abs_origin and a value within 1 of v for
\* qwen-vl and abs_resized, whatever the dimensions (all at least 1).
C4_IntegerRoundTripWithinOne ==
    /\ (RoundTripIn("abs_origin") /\ DimsAtLeastOne) => ret.value = call.value
    /\ ((RoundTripIn("qwen-vl") \/ RoundTripIn("abs_resized")) /\ DimsAtLeastOne)
        => \A i \in DOMAIN ret.value : Abs(ret.value[i] - call.value[i]) <= 1

\* C4, amended: abs_origin comes back exactly; a qwen-vl value comes back
\* no larger and within 1 + 999 / raw_dim; an abs_resized value comes back
\* no larger and within 1 + resized_dim / raw_dim (so within 1 whenever
\* raw_dim > 999, respectively raw_dim > resized_dim).
C4_IntegerRoundTripWithinOnePlusPixel ==
    /\ (RoundTripIn("abs_origin") /\ DimsAtLeastOne) => ret.value = call.value
    /\ (RoundTripIn("qwen-vl") /\ DimsAtLeastOne)
        => \A i \in DOMAIN ret.value :
              /\ ret.value[i] <= call.value[i]
              /\ (call.value[i] - ret.value[i] - 1) * RawDim(i) <= QwenScale
    /\ (RoundTripIn("abs_resized") /\ DimsAtLeastOne)
        => \A i \in DOMAIN ret.value :
              /\ ret.value[i] <= call.value[i]
              /\ (call.value[i] - ret.value[i] - 1) * RawDim(i) <= ResizedDim(i)

\* a qwen-vl value that came back more than 1 below itself
C4_Witness ==
    /\ RoundTripIn("qwen-vl") /\ DimsAtLeastOne
    /\ \E i \in DOMAIN ret.value : call.value[i] - ret.value[i] >= 2

\* The statement of C5 as it stands: converting v from a format to the same
\* format returns a value within 1e-6 of v for rel and within 0.05 of v for
\* molmo.
C5_FloatRoundTripWithinTolerance ==
    /\ RoundTripIn("rel")
        => \A i \in DOMAIN ret.value :
              FAbsDiffTimesLe(ret.value[i], call.value[i], BigFromInt(1000000), <<1>>)
    /\ RoundTripIn("molmo")
        => \A i \in DOMAIN ret.value :
              FAbsDiffTimesLe(ret.value[i], call.value[i], BigFromInt(20), <<1>>)

\* C5, amended: a rel value comes back within 1 / raw_dim + 1e-6 of itself
\* and a one-decimal molmo value within 100 / raw_dim + 0.05 of itself, one
\* raw pixel being lost on the way through abs_origin.
C5_FloatRoundTripWithinTolerancePlusPixel ==
    /\ (RoundTripIn("rel") /\ DimsAtLeastOne)
        => \A i \in DOMAIN ret.value :
              FAbsDiffTimesLe(ret.value[i], call.value[i],
                              BigMul(BigFromInt(RawDim(i)), BigFromInt(1000000)),
                              BigFromInt(1000000 + RawDim(i)))
    /\ (RoundTripIn("molmo") /\ DimsAtLeastOne)
        => \A i \in DOMAIN ret.value :
              2 * RawDim(i) * Abs(TenthsOf(ret.value[i]) - TenthsOf(call.value[i]))
                 <= 2 * MolmoScale * MolmoTenths + RawDim(i)

\* a molmo value that came back as another one-decimal value
C5_Witness ==
    /\ RoundTripIn("molmo") /\ DimsAtLeastOne
    /\ \E i \in DOMAIN ret.value : TenthsOf(ret.value[i]) # TenthsOf(call.value[i])

\* the call made in two calls: to abs_origin first, from abs_origin then
Convert(v, src, tgt) ==
    IF call.op = "convert_point_format"
    THEN convert_point_format(v, image_ele, src, tgt)
    ELSE convert_bbox_format(v, image_ele, src, tgt)

ViaAbsOrigin ==
    LET first == Convert(call.value, call.src_format, "abs_origin")
    IN  IF first.status # "ok" THEN first
        ELSE Convert(first.value, "abs_origin", call.tgt_format)

\* C7: every conversion of a point or a bbox from src to tgt returns what
\* converting to abs_origin and then from abs_origin to tgt returns, and
\* raises what that raises.
C7_ConversionRoutesThroughAbsOrigin ==
    ConvertCalled => ret = ViaAbsOrigin

\* a conversion between two formats neither of which is abs_origin
C7_Witness ==
    /\ ConvertReturned
    /\ call.src_format = "qwen-vl" /\ call.tgt_format = "rel"
    /\ ret = ViaAbsOrigin
    /\ \E i \in DOMAIN ret.value : ~FIsZero(ret.value[i])

\* the to-canonical leg of the call raises KeyError: the source format is
\* abs_resized and the record carries no resized dimensions
SourceLegMissesResized ==
    /\ call.src_format = "abs_resized"
    /\ \E i \in DOMAIN call.value : ResizedKey(BBoxDims[i]) \notin DOMAIN image_ele

\* The statement of C10 as it stands: a conversion whose source or target
\* format is none of the five raises UnknownCoordinateFormat and returns
\* nothing, whatever the other format is.
C10_UnknownFormatAlwaysRaises ==
    (ConvertCalled /\ (call.src_format \notin Formats \/ call.tgt_format \notin Formats))
    => ret = Raise("UnknownCoordinateFormat")

\* C10, amended: an unknown source format raises UnknownCoordinateFormat
\* whatever the target; an unknown target format raises it for every valid
\* source whose own leg succeeds, and a source leg that fails (abs_resized
\* on a record without resized dimensions) raises its own error first.  No
\* value is returned in either case.
C10_UnknownFormatRaisesUnlessSourceLegFails ==
    /\ (ConvertCalled /\ call.src_format \notin Formats)
        => ret = Raise("UnknownCoordinateFormat")
    /\ (ConvertCalled /\ call.src_format \in Formats /\ call.tgt_format \notin Formats)
        => ret = IF SourceLegMissesResized THEN Raise("MissingResizedDimensions")
                 ELSE Raise("UnknownCoordinateFormat")

\* an unknown target met after a source leg that has already failed
C10_Witness ==
    /\ ConvertCalled
    /\ call.tgt_format \notin Formats
    /\ SourceLegMissesResized
    /\ ret.status = "MissingResizedDimensions"

---------------------------------------------------------------------------
(* Properties of a chain of conversions, checked under SpecChain.          *)

\* the chain has gone through its five legs and is back in abs_origin
ChainDone == chain.leg = ChainLegs + 1

\* d raw pixels are within the sum of the per-leg tolerances for a raw
\* dimension raw and a resized dimension resized: one qwen-vl unit is
\* raw/999 pixels, 1e-6 rel is raw/10^6, 0.05 molmo is raw/2000, one
\* abs_resized unit is raw/resized.  Over the common denominator
\* 999 * 10^6 * resized:
\*    d * 999 * 10^6 * resized
\*       <= raw * ((10^6 + 999 + 999 * 500) * resized + 999 * 10^6)
WithinLegTolerances(d, raw, resized) ==
    \/ d <= 0
    \/ BigCmp(BigTrim(BigMul(BigMul(BigFromInt(d), BigFromInt(QwenScale * 1000000)),
                             BigFromInt(resized))),
              BigTrim(BigMul(BigFromInt(raw),
                             BigAdd(BigMul(BigFromInt(1000000 + QwenScale + QwenScale * 500),
                                           BigFromInt(resized)),
                                    BigFromInt(QwenScale * 1000000))))) <= 0

---------------------------------------------------------------------------
(* Failures and precision of the converter, checked under SpecConv.        *)

\* the record lacks resized_width or resized_height
LacksResized ==
    "resized_width" \notin DOMAIN image_ele \/ "resized_height" \notin DOMAIN image_ele

\* a conversion between the four formats that do not use the resized size
\* succeeds on any record
C11_OtherFormatsNeedNoResized ==
    (/\ ConvertCalled
     /\ call.src_format \in Formats \ {"abs_resized"}
     /\ call.tgt_format \in Formats \ {"abs_resized"})
    => ret.status = "ok"

\* The statement of C11 as it stands: a conversion raises
\* MissingResizedDimensions if and only if abs_resized is its source or its
\* target format and the record lacks resized_width or resized_height; the
\* other four formats convert on a record with only width and height.
C11_MissingResizedIffAbsResizedTakesPart ==
    /\ ConvertCalled
        => (ret.status = "MissingResizedDimensions"
            <=> /\ LacksResized
                /\ call.src_format = "abs_resized" \/ call.tgt_format = "abs_resized")
    /\ C11_OtherFormatsNeedNoResized

\* C11, amended: a conversion raises MissingResizedDimensions if and only if
\* the record lacks resized_width or resized_height and either abs_resized is
\* the source format, or abs_resized is the target format and the source
\* format is one of the five (an unknown source raises
\* UnknownCoordinateFormat before the target is looked at); the other four
\* formats convert on a record with only width and height.
C11_MissingResizedIffAbsResizedLegRuns ==
    /\ ConvertCalled
        => (ret.status = "MissingResizedDimensions"
            <=> /\ LacksResized
                /\ \/ call.src_format = "abs_resized"
                   \/ call.tgt_format = "abs_resized" /\ call.src_format \in Formats)
    /\ C11_OtherFormatsNeedNoResized

\* abs_resized as the target of a valid source on a record that has one
\* resized dimension and lacks the other
C11_Witness ==
    /\ ConvertCalled
    /\ image_ele = HalfSizedElement
    /\ call.src_format = "qwen-vl" /\ call.tgt_format = "abs_resized"
    /\ ret = Raise("MissingResizedDimensions")

\* the largest integer a conversion of the model returns is below this
MaxInteger == 2000

\* how an integer is written
IntegerNumerals == {ToString(n) : n \in 0..MaxInteger}

\* the component is an integer, not a float
IsInteger(c) == ToString(c) \in IntegerNumerals

\* the float is the one nearest to a number with one decimal
HasOneDecimal(c) == c = FDiv(FromInt(TenthsOf(c)), FromInt(MolmoTenths))

\* C12: whatever the source format and the value, every component a
\* conversion returns is an integer when the target format is abs_origin,
\* abs_resized or qwen-vl, and a float with one decimal place (the float
\* nearest to a multiple of 0.1) when the target format is molmo.
C12_ResultHasTargetPrecision ==
    ConvertReturned
    => /\ call.tgt_format \in {"abs_origin", "abs_resized", "qwen-vl"}
            => \A i \in DOMAIN ret.value : IsInteger(ret.value[i])
       /\ call.tgt_format = "molmo"
            => \A i \in DOMAIN ret.value : HasOneDecimal(ret.value[i])

\* a rel value with many binary digits stored as a molmo value with one
\* decimal that is not a whole number
C12_Witness ==
    /\ ConvertReturned
    /\ call.src_format = "rel" /\ call.tgt_format = "molmo"
    /\ \E i \in DOMAIN ret.value :
          /\ HasOneDecimal(ret.value[i])
          /\ ~FIsInt(ret.value[i])

---------------------------------------------------------------------------
(* What update_image_size writes, checked under SpecSize.                  *)

CallPixelsPerToken == call.patch_size * call.patch_size * call.merge_base * call.merge_base

\* what the budgeter returns for the arguments the sizer is said to pass
BudgeterResult ==
    smart_resize(call.before.height, call.before.width,
                 call.merge_base * call.patch_size,
                 CallPixelsPerToken * call.min_tokens,
                 CallPixelsPerToken * call.max_tokens,
                 SizerMaxLongSide)

\* C13: update_image_size stores the size smart_resize returns for
\* factor = merge_base * patch_size, min_pixels = pixels_per_token * min_tokens
\* and max_pixels = pixels_per_token * max_tokens, with pixels_per_token =
\* patch_size^2 * merge_base^2, and seq_len is exactly
\* resized_height * resized_width / pixels_per_token + 2: the division
\* leaves no remainder.
C13_SeqLenIsExactTokenCount ==
    SizeReturned
    => /\ BudgeterResult = Ok(<<image_ele.resized_height, image_ele.resized_width>>)
       /\ (image_ele.resized_height * image_ele.resized_width) % CallPixelsPerToken = 0
       /\ (image_ele.seq_len - FramingTokens) * CallPixelsPerToken
             = image_ele.resized_height * image_ele.resized_width

\* a 100 x 100 image on the 28 grid: 112 x 112 pixels are 16 tokens
C13_Witness ==
    /\ SizeReturned
    /\ call.before = Element(100, 100)
    /\ call.merge_base = 2 /\ call.patch_size = 14
    /\ image_ele.resized_height * image_ele.resized_width > 0
    /\ image_ele.seq_len
          = (image_ele.resized_height * image_ele.resized_width) \div 784 + 2
    /\ image_ele.seq_len > 2

\* C14: update_image_size changes the record it is given and returns that
\* record: the keys resized_height, resized_width and seq_len are set, width,
\* height and every other key keep their values, and no key is removed; when
\* smart_resize raises, the record is left as it was.
C14_OnlySizedKeysChange ==
    /\ SizeReturned
        => /\ ret.value = image_ele
           /\ DOMAIN image_ele = DOMAIN call.before \cup SizedKeys
           /\ \A k \in DOMAIN call.before \ SizedKeys : image_ele[k] = call.before[k]
    /\ (SizeCalled /\ ret.status # "ok")
        => /\ image_ele = call.before
           /\ ret.value = <<>>

\* a record with a key of its own has been sized and has kept it
C14_Witness ==
    /\ SizeReturned
    /\ call.before = TaggedElement
    /\ image_ele.step = 7
    /\ image_ele.width = 100 /\ image_ele.height = 100
    /\ SizedKeys \subseteq DOMAIN image_ele

---------------------------------------------------------------------------
(* Shape of the size smart_resize returns, checked under SpecResize.       *)

\* some scale s has |rh - h/s| <= f and |rw - w/s| <= f: the two ranges of
\* 1/s, [(rh - f)/h, (rh + f)/h] and [(rw - f)/w, (rw + f)/w], meet
CommonScaleExists(h, w, f, rh, rw) ==
    /\ (rh - f) * w <= (rw + f) * h
    /\ (rw - f) * h <= (rh + f) * w

\* C15: smart_resize keeps the aspect ratio up to grid rounding: for every
\* accepted input one scale s puts the returned height within one factor of
\* height/s and the returned width within one factor of width/s; and
\* smart_resize(1000, 2000, factor 28, min_pixels 3136, max_pixels 1254400,
\* max_long_side 8192) returns two multiples of 28 of product at most
\* 1254400 whose width is within 28 of twice the height.
C15_AspectRatioKeptUpToGrid ==
    /\ (ResizeReturned /\ call.factor > 0)
        => CommonScaleExists(call.height, call.width, call.factor,
                             ret.value[1], ret.value[2])
    /\ (/\ ResizeCalled
        /\ call.height = 1000 /\ call.width = 2000 /\ call.factor = 28
        /\ call.min_pixels = 3136 /\ call.max_pixels = 1254400
        /\ call.max_long_side = 8192)
        => /\ ret.status = "ok"
           /\ ret.value[1] % 28 = 0 /\ ret.value[2] % 28 = 0
           /\ ret.value[1] * ret.value[2] <= 1254400
           /\ Abs(ret.value[2] - 2 * ret.value[1]) <= 28

---------------------------------------------------------------------------
(* The rounding primitives on integers, checked under SpecSnap.            *)

SnapOps == {"round_by_factor", "ceil_by_factor", "floor_by_factor"}
SnapCalled == call.op \in SnapOps
SnapReturned == SnapCalled /\ ret.status = "ok"

\* C16: for every integer number and positive integer factor,
\* round_by_factor returns a multiple of factor at distance at most
\* factor / 2 from number, ceil_by_factor the smallest multiple >= number
\* and floor_by_factor the largest multiple <= number, so floor <= number
\* <= ceil with both within factor - 1 of number.
C16_SnapsToNearestUpperLowerMultiple ==
    (SnapCalled /\ call.factor > 0) =>
        /\ ret.status = "ok"
        /\ ret.value % call.factor = 0
        /\ call.op = "round_by_factor"
            => 2 * Abs(ret.value - call.number) <= call.factor
        /\ call.op = "ceil_by_factor"
            => /\ ret.value >= call.number
               /\ ret.value - call.factor < call.number
               /\ ret.value - call.number <= call.factor - 1
        /\ call.op = "floor_by_factor"
            => /\ ret.value <= call.number
               /\ ret.value + call.factor > call.number
               /\ call.number - ret.value <= call.factor - 1
               /\ ret.value <= ceil_by_factor_of_integer(call.number, call.factor).value

\* a negative number that is no multiple of the factor has been floored
C16_Witness ==
    /\ SnapReturned /\ call.op = "floor_by_factor"
    /\ call.number = -5 /\ call.factor = 2 /\ ret.value = -6

\* C17: the three primitives fail, returning no value, when factor = 0
\* (the error of the division by the factor), and that is their only
\* failure: for a nonzero integer factor and an integer number they return
\* an integer.
C17_FailsExactlyOnZeroFactor ==
    SnapCalled =>
        /\ call.factor = 0 => ret = Raise("ZeroDivisionError")
        /\ call.factor # 0 => ret.status = "ok" /\ ret.value \in Int

C17_Witness ==
    /\ SnapCalled /\ call.op = "ceil_by_factor" /\ call.number = 7
    /\ call.factor = 0 /\ ret.status = "ZeroDivisionError" /\ ret.value = <<>>

\* C18: a negative grid factor is rejected: round_by_factor,
\* ceil_by_factor, floor_by_factor and smart_resize return no result when
\* factor < 0.
C18_NegativeFactorIsRejected ==
    ((SnapCalled \/ ResizeCalled) /\ call.factor < 0) => ret.status # "ok"

---------------------------------------------------------------------------
(* The byte helpers, checked under SpecCodec.                              *)

DownscaleCalled == call.op = "downscale_image_bytes"
DHashCalled == call.op = "dhash"
Decodable(bytes) == bytes.kind = "image"

\* C19: for a decodable image of width, height >= 1 and max_w, max_h >= 1,
\* downscale_image_bytes produces an image whose width and height are each
\* at most the input's and at least 1; when width <= max_w and height <=
\* max_h nothing is resized and the size is the input's (no upscaling).
C19_DownscaleNeverEnlarges ==
    (/\ DownscaleCalled /\ Decodable(call.image)
     /\ call.max_w >= 1 /\ call.max_h >= 1) =>
        /\ ret.status = "ok" /\ Decodable(ret.value)
        /\ ret.value.width \in 1..call.image.width
        /\ ret.value.height \in 1..call.image.height
        /\ (call.image.width <= call.max_w /\ call.image.height <= call.max_h)
            => /\ ret.value.width = call.image.width
               /\ ret.value.height = call.image.height

\* a 1920 x 1080 JPEG has been brought within 1280 x 720 and stored as PNG
C19_Witness ==
    /\ DownscaleCalled /\ call.image = ImageBytes("jpeg", 1920, 1080)
    /\ call.max_w = 1280 /\ call.max_h = 720 /\ call.encoded
    /\ ret.status = "ok" /\ ret.value.format = "png"
    /\ ret.value.width <= 1280 /\ ret.value.height <= 720
    /\ ret.value.width < 1920

\* C20: the two soft-failure paths never raise: downscale_image_bytes
\* returns its input bytes unchanged when they cannot be decoded or the
\* re-encoding fails, and dhash returns 0 when decoding support is missing
\* or decoding fails.
C20_SoftFailuresNeverRaise ==
    /\ (DownscaleCalled /\ (~Decodable(call.image) \/ ~call.encoded))
        => ret = Ok(call.image)
    /\ (DHashCalled /\ (~call.pillow \/ ~Decodable(call.image_bytes)))
        => ret = Ok(0)

---------------------------------------------------------------------------
(* The formulas of the two legs, checked under SpecConv.                   *)

\* a returned conversion from src to tgt on a record with raw dimensions >= 1
Converted(src, tgt) ==
    /\ ConvertReturned /\ DimsAtLeastOne
    /\ call.src_format = src /\ call.tgt_format = tgt

\* The statement of C21 as it stands: converting an abs_origin coordinate v
\* to qwen-vl yields round(v * 999 / raw_dim), the nearest integer, per
\* axis, for bboxes and points.
C21_QwenIsNearestInteger ==
    Converted("abs_origin", "qwen-vl") =>
        \A i \in DOMAIN ret.value :
            2 * Abs(ret.value[i] * RawDim(i) - call.value[i] * QwenScale) <= RawDim(i)

\* C21, amended: converting an abs_origin coordinate v to qwen-vl yields
\* int(v / raw_dim * 999), per axis, for bboxes and points: the integer part
\* of v * 999 / raw_dim, never rounded up, and one below it only where
\* v * 999 / raw_dim is a whole number the float product falls short of.
C21_QwenIsIntegerPart ==
    Converted("abs_origin", "qwen-vl") =>
        \A i \in DOMAIN ret.value :
            /\ ret.value[i] * RawDim(i) <= call.value[i] * QwenScale
            /\ call.value[i] * QwenScale <= (ret.value[i] + 1) * RawDim(i)

\* x = 1 of width 1000 is stored as 0 (0.999 truncated), x = 999 as 998
C21_Witness ==
    /\ Converted("abs_origin", "qwen-vl") /\ image_ele.width = 1000
    /\ call.value[1] = 1 /\ ret.value[1] = 0

\* the i-th coordinate of the call as a fraction <<numerator, denominator>>
\* of the full range of its source format
Fraction(i) ==
    IF call.src_format = "abs_resized" THEN <<call.value[i], ResizedDim(i)>>
    ELSE IF call.src_format = "qwen-vl" THEN <<call.value[i], QwenScale>>
    ELSE IF call.src_format = "rel"
    THEN <<FRoundInt(FMul(call.value[i], FromInt(RelDigits))), RelDigits>>
    ELSE <<TenthsOf(call.value[i]), MolmoScale * MolmoTenths>>

\* C22: the to-canonical leg yields, per axis, the integer part of v for
\* abs_origin, of v * raw_dim / resized_dim for abs_resized, of
\* v * raw_dim / 999 for qwen-vl, of v * raw_dim for rel and of
\* v * raw_dim / 100 for molmo, x against width / resized_width and y
\* against height / resized_height; the bbox and the point variant give the
\* same result on the same coordinates.
C22_ToCanonicalIsIntegerPartOfScaledValue ==
    (ConvertReturned /\ DimsAtLeastOne /\ call.tgt_format = "abs_origin") =>
        /\ \A i \in DOMAIN ret.value :
            ret.value[i] =
                IF call.src_format = "abs_origin" THEN call.value[i]
                ELSE (Fraction(i)[1] * RawDim(i)) \div Fraction(i)[2]
        /\ call.op = "convert_point_format" =>
            _convert_bbox_to_abs_origin(call.value \o call.value, image_ele,
                                        call.src_format)
                = Ok(ret.value \o ret.value)

\* |r * raw - v| <= v * 2^-52: r is the float nearest to v / raw
IsQuotient(r, v, raw) ==
    FAbsDiffTimesLe([m |-> BigMulSmall(r.m, raw), e |-> r.e], FromInt(v),
                    BigShl(<<1>>, 52), BigFromInt(v))

\* C23: the from-canonical leg yields, per axis, the integer part of
\* v * resized_dim / raw_dim for abs_resized, v / raw_dim for rel and
\* v * 100 / raw_dim rounded to one decimal for molmo, x against width and y
\* against height; convert_bbox_format([100, 100, 200, 200], {width: 1000,
\* height: 1000}, abs_origin -> rel) returns [0.1, 0.1, 0.2, 0.2].
C23_FromCanonicalIsScaledValue ==
    /\ Converted("abs_origin", "abs_resized") =>
        \A i \in DOMAIN ret.value :
            ret.value[i] = (call.value[i] * ResizedDim(i)) \div RawDim(i)
    /\ Converted("abs_origin", "rel") =>
        \A i \in DOMAIN ret.value : IsQuotient(ret.value[i], call.value[i], RawDim(i))
    /\ Converted("abs_origin", "molmo") =>
        \A i \in DOMAIN ret.value :
            /\ HasOneDecimal(ret.value[i])
            /\ 2 * Abs(TenthsOf(ret.value[i]) * RawDim(i)
                        - call.value[i] * MolmoScale * MolmoTenths) <= RawDim(i)
    /\ (/\ call.op = "convert_bbox_format" /\ image_ele = Element(1000, 1000)
        /\ call.src_format = "abs_origin" /\ call.tgt_format = "rel"
        /\ call.value = <<100, 100, 200, 200>>)
        => ret = Ok(<<FDiv(FromInt(1), FromInt(10)), FDiv(FromInt(1), FromInt(10)),
                      FDiv(FromInt(2), FromInt(10)), FDiv(FromInt(2), FromInt(10))>>)

---------------------------------------------------------------------------
(* The max_long_side pre-clamp, checked under SpecResize.                  *)

\* a call that has passed the two guards, with a grid and a long side >= 1
ResizeAccepted ==
    /\ ResizeCalled /\ call.factor >= 1 /\ call.max_long_side >= 1
    /\ ret.status \notin {"InvalidDimensions", "AspectRatioTooExtreme"}

LongSide == Max(call.height, call.width)

\* hw is <<height, width>> divided by LongSide / max_long_side, each to
\* within the pixel the truncation drops
ClampedBy(hw) ==
    /\ Max(hw[1], hw[2]) <= call.max_long_side
    /\ \A i \in 1..2 :
        LET side == IF i = 1 THEN call.height ELSE call.width
        IN  /\ hw[i] * LongSide <= side * call.max_long_side
            /\ side * call.max_long_side <= (hw[i] + 1) * LongSide

\* the pre-clamp of the call: the dimensions that enter the grid snap
EntersSnap(hw) ==
    IF LongSide > call.max_long_side THEN ClampedBy(hw)
    ELSE hw = <<call.height, call.width>>

\* the area of the dimensions hw once snapped to the grid
SnappedArea(hw) ==
    round_by_factor(FromInt(hw[1]), call.factor)
        * round_by_factor(FromInt(hw[2]), call.factor)

\* a budget step enlarges the dimensions hw: the growth step runs, or the
\* shrink step runs although hw itself is below max_pixels (its beta is
\* taken from hw, not from the snapped area, and is then below 1)
Enlarges(hw) ==
    \/ SnappedArea(hw) <= call.max_pixels /\ SnappedArea(hw) < call.min_pixels
    \/ SnappedArea(hw) > call.max_pixels /\ hw[1] * hw[2] < call.max_pixels

\* the returned longer side is at most max_long_side rounded to the grid
ReturnsWithinLongSide ==
    Max(ret.value[1], ret.value[2])
        <= round_by_factor(FromInt(call.max_long_side), call.factor)

\* The statement of C24 as it stands: when max(height, width) >
\* max_long_side both dimensions are divided by max(height, width) /
\* max_long_side before the snap, the longer side entering the snap is at
\* most max_long_side and the returned longer side is at most max_long_side
\* rounded to a multiple of factor; otherwise the dimensions enter the snap
\* unchanged; this whatever min_pixels and max_pixels are.
C24_PreClampBoundsReturnedLongSide ==
    ResizeAccepted =>
        /\ EntersSnap(PreClamp(call.height, call.width, call.max_long_side))
        /\ (ret.status = "ok" /\ LongSide > call.max_long_side)
            => ReturnsWithinLongSide

\* C24, amended: as above, but the returned longer side is at most
\* max_long_side rounded to a multiple of factor only when no budget step
\* enlarges the clamped dimensions.
C24_PreClampBoundsLongSideUnlessEnlarged ==
    ResizeAccepted =>
        /\ EntersSnap(PreClamp(call.height, call.width, call.max_long_side))
        /\ (/\ ret.status = "ok" /\ LongSide > call.max_long_side
            /\ ~Enlarges(PreClamp(call.height, call.width, call.max_long_side)))
            => ReturnsWithinLongSide

\* 100 x 400 with max_long_side 100 enters the snap as 25 x 100 and the
\* returned longer side stays within 100
C24_Witness ==
    /\ ResizeAccepted /\ ret.status = "ok"
    /\ call.height = 100 /\ call.width = 400 /\ call.max_long_side = 100
    /\ PreClamp(call.height, call.width, call.max_long_side) = <<25, 100>>
    /\ ~Enlarges(<<25, 100>>) /\ ReturnsWithinLongSide

---------------------------------------------------------------------------
(* Properties of the observer, checked under SpecObserve.                  *)

SnapshotReturned == call.op = "snapshot" /\ ret.status = "ok"

HashRecorded == SnapshotReturned /\ "screenshot_hash" \in DOMAIN ret.value.raw_metadata

\* dhash reached its return value: PIL is there and the bytes open as an image
FingerprintComputed == call.pillow /\ call.shot.kind = "image"

(* C25: in every snapshot, raw_metadata['screenshot_hash'] is recorded     *)
(* only when a real fingerprint was computed, and it is never the 0        *)
(* sentinel of dhash.                                                      *)
C25_ZeroSentinelIsNeverRecorded ==
    HashRecorded =>
        /\ FingerprintComputed
        /\ ret.value.raw_metadata.screenshot_hash # 0

---------------------------------------------------------------------------
(* More properties of smart_resize, checked under SpecResize.              *)

\* the call passes both guards and its other arguments are in range
WithinGuards ==
    /\ ResizeCalled
    /\ call.height >= 2 /\ call.width >= 2
    /\ Max(call.height, call.width) <= 200 * Min(call.height, call.width)
    /\ call.factor >= 1
    /\ 1 <= call.min_pixels /\ call.min_pixels <= call.max_pixels
    /\ call.max_long_side >= 1

(* C26: smart_resize has no failure mode other than its two guards: for    *)
(* height, width >= 2, an aspect ratio of at most 200, factor >= 1,        *)
(* 1 <= min_pixels <= max_pixels and max_long_side >= 1 it returns a pair  *)
(* of integers and raises nothing, also when the pre-clamp has truncated   *)
(* the dimensions before the budget steps divide by height x width.        *)
C26_NoFailureBeyondTheGuards ==
    WithinGuards
    => /\ ret.status = "ok"
       /\ ret.value \in Int \X Int

---------------------------------------------------------------------------
(* More properties of update_image_size, checked under SpecSize.           *)

(* C27: every size smart_resize returns, and so every resized_height and   *)
(* resized_width update_image_size writes, is strictly positive, at least  *)
(* factor in each dimension: a later abs_resized conversion never divides  *)
(* by zero and seq_len is never the bare 2.                                *)
C27_StoredSizeIsAtLeastOneGridCell ==
    SizeReturned
    => /\ image_ele.resized_height >= CallGrid
       /\ image_ele.resized_width >= CallGrid
       /\ image_ele.seq_len > FramingTokens

---------------------------------------------------------------------------
(* More properties of dhash, checked under SpecCodec.                      *)

\* dhash got as far as the bitmask: PIL is there, the bytes open as an
\* image and the resize has a size to work with
DHashDecoded ==
    /\ DHashCalled
    /\ call.pillow /\ Decodable(call.image_bytes) /\ call.hash_size >= 1

\* some pixel of the thumbnail is brighter than its left neighbour
SomePixelRises ==
    \E r \in 1..call.hash_size, c \in 1..call.hash_size :
        call.pixels[r][c + 1] > call.pixels[r][c]

(* C28: dhash returns 0 only on its failure paths: for every image that    *)
(* was decoded, one with all pixels equal or with rows that never          *)
(* increase included, the bitmask is in [1, 2^(hash_size^2) - 1].          *)
C28_DecodedImageHashIsNonZero ==
    DHashDecoded
    => /\ ret.status = "ok"
       /\ ret.value \in 1..(2 ^ (call.hash_size * call.hash_size) - 1)

(* C28, as the code has it: the bitmask of a decoded image is in           *)
(* [0, 2^(hash_size^2) - 1] and it is 0 exactly when no pixel of the       *)
(* thumbnail is brighter than its left neighbour.                          *)
C28_DecodedImageHashIsZeroIffNoPixelRises ==
    DHashDecoded
    => /\ ret.status = "ok"
       /\ ret.value \in 0..(2 ^ (call.hash_size * call.hash_size) - 1)
       /\ ret.value = 0 <=> ~SomePixelRises

\* an image whose thumbnail is one grey level throughout hashes to 0, and
\* so does one whose rows only fall
C28_Witness ==
    /\ DHashDecoded
    /\ call.hash_size = 2
    /\ call.pixels \in {<<<<255, 255, 255>>, <<255, 255, 255>>>>,
                        <<<<255, 0, 0>>, <<255, 255, 0>>>>}
    /\ ret = Ok(0)

---------------------------------------------------------------------------
(* More properties of the observer, checked under SpecObserve.             *)

CaptureReturned == call.op = "capture_screenshot" /\ ret.status = "ok"

\* the dhash of the bytes, as the call's ImageProcessor computes it
HashOf(bytes) == dhash(bytes, DefaultHashSize, call.pillow, ScreenPixels(bytes)).value

\* the bytes a capture_screenshot call writes: the controller's, downscaled
\* if that was asked for
BytesToWrite ==
    IF call.downscale
    THEN downscale_image_bytes(call.shot, 1280, 720, call.encoded).value
    ELSE call.shot

(* C29: in any sequence of capture_screenshot and snapshot calls, calls in *)
(* which the controller raises VMControllerError included, the hash is     *)
(* never stale: when capture_screenshot returns, _latest_screenshot_hash   *)
(* is None if encode_base64 is false and otherwise the dhash of exactly    *)
(* the bytes the call wrote and encoded, and a screenshot_hash in a        *)
(* snapshot's raw_metadata is computed from that snapshot's own            *)
(* screenshot.                                                             *)
C29_HashIsNeverStale ==
    /\ CaptureReturned
       => /\ ret.value.written = BytesToWrite
          /\ IF call.encode_base64
             THEN /\ ret.value.b64 = <<ret.value.written>>
                  /\ _latest_screenshot_hash = <<HashOf(ret.value.written)>>
             ELSE /\ ret.value.b64 = None
                  /\ _latest_screenshot_hash = None
    /\ HashRecorded
       => /\ call.shot.kind # "error"
          /\ ret.value.screenshot_path = <<call.shot>>
          /\ ret.value.screenshot_b64 = <<call.shot>>
          /\ ret.value.raw_metadata.screenshot_hash = HashOf(call.shot)
          /\ _latest_screenshot_hash = <<HashOf(call.shot)>>

\* a snapshot records the hash 2 of its own screenshot after an earlier
\* call has left the hash 1 of another one behind
C29_Witness ==
    /\ HashRecorded
    /\ call.before = <<1>>
    /\ ret.value.raw_metadata.screenshot_hash = 2

---------------------------------------------------------------------------
(* Properties of concurrent sizing, checked under SpecRace.                *)

\* the three fields caller t stores when it runs alone
Alone(t) ==
    LET sized == update_image_size(Element(image_ele["width"], image_ele["height"]),
                                   CallerSizings[t][1], CallerSizings[t][2],
                                   CallerSizings[t][3], CallerSizings[t][4])
    IN  IF sized.status = "ok" THEN [k \in SizedKeys |-> sized.value[k]] ELSE <<>>

\* the three fields as they stand in the record
Published == [k \in SizedKeys \cap DOMAIN image_ele |-> image_ele[k]]

\* nothing has been stored, or what stands in the record is the result of
\* one caller
FromOneCall == Published = <<>> \/ \E t \in Callers : Published = Alone(t)

AllReturned == \A t \in Callers : threads.caller[t].pc \in {"returned", "raised"}

ReadAll == Len(threads.seen) = Len(UpdateKeys)

\* what the reader has taken is nothing, or the three fields of one caller
SeenFromOneCall ==
    \/ \A i \in 1..Len(UpdateKeys) : threads.seen[i] = <<>>
    \/ \E t \in Callers :
        /\ Alone(t) # <<>>
        /\ \A i \in 1..Len(UpdateKeys) : threads.seen[i] = <<Alone(t)[UpdateKeys[i]]>>

============================================================================
